---- MODULE Spec2Model ----
(***************************************************************************)
(* GhostLine P2P chat: the peer-connection lifecycle manager of            *)
(* src/lib/webrtc.ts, the React component of src/app/page.tsx that drives  *)
(* it, and the signaling relay of README.md, as one state machine.         *)
(*                                                                         *)
(* Every browser tab of Clients runs the same code.  webrtc[c] is the      *)
(* module state of webrtc.ts in tab c, page[c] the state of the Home       *)
(* component in tab c.  A handler of the code is an operator on a context  *)
(* record m = [w, p, out, errs, sends, used, now]: w and p are the tab's   *)
(* webrtc and page records, out the events the handler emitted on the      *)
(* socket, errs the onErrorCallback calls it made, sends the dc.send calls *)
(* it made, used the RTCPeerConnection identities in use, now Date.now().  *)
(* An action gathers the context, applies the handler, and commits.        *)
(***************************************************************************)
EXTENDS Integers, Sequences, FiniteSets, TLC

\* ------------------------------------------------------------------ bounds
Clients == {"a", "b", "c"}
\* user ids are 1..MaxIds, handed out fresh by handleJoin; 0 stands for null
MaxIds == 2
\* environment faults: lost connections, failing sends, relay drops
MaxFaults == 1
\* handleSendMessage calls
MaxSends == 2
\* callbacks of closed connections (a promise rejecting, a channel's close
\* event) that are still delivered
MaxLate == 1
\* user sends and environment faults together in one run
MaxInputs == 2
\* Date.now() takes the values 1..MaxClock
MaxClock == 2
\* RTCPeerConnection identities (the session a description belongs to)
PcIds == 1..12
\* the texts the users type, in turn
Texts == <<"x", "y">>

VARIABLES
    webrtc,     \* [Clients -> module state of webrtc.ts]
    page,       \* [Clients -> state of the Home component]
    relayUsers, \* the relay's onlineUsers map, in insertion order
    inbox,      \* [Clients -> relay events on their way to the tab's socket]
    wire,       \* data-channel payloads in flight
    now,        \* Date.now() when a handler last read it
    nextId,     \* next user id handleJoin hands out
    faults,     \* environment faults so far
    nsends,     \* handleSendMessage calls so far
    nlate,      \* callbacks of closed connections delivered so far
    last        \* the step just taken

vars == <<webrtc, page, relayUsers, inbox, wire, now, nextId, faults, nsends, nlate, last>>

\* ------------------------------------------------------------------ helpers
\* the run has room for one more environment fault
MayFault == faults < MaxFaults /\ faults + nsends < MaxInputs
\* the run has room for one more user send
MaySend == nsends < MaxSends /\ faults + nsends < MaxInputs

Remove(f, k) == [x \in (DOMAIN f) \ {k} |-> f[x]]
Put(f, k, v) == [x \in (DOMAIN f) \cup {k} |-> IF x = k THEN v ELSE f[x]]
Range(s) == {s[i] : i \in 1..Len(s)}
SelectSeqIdx(s, i) == [j \in 1..(Len(s) - 1) |-> IF j < i THEN s[j] ELSE s[j + 1]]
Min(S) == CHOOSE x \in S : \A y \in S : x <= y

RECURSIVE SetToSeq(_)
\* a set of numbers in increasing order
SetToSeq(S) == IF S = {} THEN <<>> ELSE <<Min(S)>> \o SetToSeq(S \ {Min(S)})

NoFn == [x \in {} |-> 0]

\* ------------------------------------------------------------------ webrtc.ts: state
\* src/lib/webrtc.ts 31-44: the module-level state and the callback hooks.
\* cb holds what the registered page.tsx callbacks closed over (the render in
\* which handleJoin ran); set = FALSE are the initial no-op hooks.  promise is
\* the state of the promise the last connect() returned (src/lib/webrtc.ts 73).
NoCallbacks ==
    [set |-> FALSE, connectionStatus |-> "disconnected", userId |-> 0, username |-> ""]

InitWebrtc ==
    [socket |-> "null", localUserId |-> 0, localUsername |-> "", _isConnected |-> FALSE,
     peers |-> NoFn, dataChannels |-> NoFn, cb |-> NoCallbacks,
     late |-> {}, events |-> {}, promise |-> "none"]

\* src/app/page.tsx 31-38: useState / useRef initial values; effStatus is the
\* connectionStatus the registered unmount effect closed over.
InitPage ==
    [username |-> "", userId |-> 0, onlineUsers |-> <<>>, messages |-> <<>>,
     connectionStatus |-> "disconnected", isConnecting |-> FALSE,
     effStatus |-> "disconnected"]

\* new RTCPeerConnection(iceConfiguration): signalingState stable,
\* connectionState new, iceGatheringState new, no description, an empty
\* operations chain.
NewPc(id, isInitiator) ==
    [id |-> id, initiator |-> isInitiator, signalingState |-> "stable",
     connectionState |-> "new", remote |-> 0, neg |-> "none",
     ops |-> <<>>, announced |-> FALSE, ice |-> "new"]

\* the handler an operation of the chain was awaited by
HandlerOf(op) ==
    IF op.op \in {"createOffer", "setLocalOffer"} THEN "chain"
    ELSE IF op.op = "setRemoteAnswer" THEN "answer"
    ELSE IF op.op = "addIceCandidate" THEN "ice"
    ELSE "offer"

\* socket.connected
SocketConnected(w) == w.socket = "connected"

\* src/lib/webrtc.ts 52-55
isConnected(w) == w._isConnected /\ SocketConnected(w)

\* ------------------------------------------------------------------ page.tsx: callbacks
\* senderId 'system' of the notices page.tsx adds itself (page.tsx 53, 100)
SystemId == -1

\* Date.now() as a timestamp, in half milliseconds so that
\* Date.now() + Math.random() (page.tsx 103) has a value of its own
Stamp(t, rnd) == 2 * t + rnd

\* `msg-${Date.now()}-${localUserId}` (webrtc.ts 369, page.tsx 218)
MsgId(t, uid) == <<"msg", t, uid>>

Ids(users) == {users[i].id : i \in 1..Len(users)}

\* src/app/page.tsx 138-153.  The toast is not modelled.
handleError(m, error) ==
    [m EXCEPT !.p.connectionStatus = "error", !.p.isConnecting = FALSE]

\* src/app/page.tsx 42-58
handleConnectionSuccess(m) ==
    [m EXCEPT !.p.connectionStatus = "connected",
              !.p.isConnecting = FALSE,
              !.p.messages = <<[id |-> <<"system-join", m.now, 0>>,
                                senderId |-> SystemId, senderName |-> "System",
                                text |-> "joined", timestamp |-> Stamp(m.now, 0)]>> \o @]

\* src/app/page.tsx 60-78; connectionStatus is the value the callback closed over
handleDisconnection(m, connectionStatus) ==
    IF connectionStatus = "disconnected" THEN m
    ELSE [m EXCEPT !.p.connectionStatus = "disconnected",
                   !.p.isConnecting = FALSE,
                   !.p.username = "",
                   !.p.userId = 0,
                   !.p.onlineUsers = <<>>,
                   !.p.messages = <<>>]

\* users.filter(pred) for a roster
FilterUsers(users, keep) == SelectSeq(users, LAMBDA u : u.id \in keep)

SystemNotice(kind, u, t, rnd) ==
    [id |-> <<kind, t, u.id>>, senderId |-> SystemId, senderName |-> "System",
     text |-> kind, timestamp |-> Stamp(t, rnd)]

\* src/app/page.tsx 81-124; userId is the value the callback closed over.  The
\* first setOnlineUsers is applied before the updater of the second one runs,
\* so the updater's prevOnlineUsers is the list the first call stored.
handleUserListUpdate(m, users, userId) ==
    LET all == Ids(users)
        currentUser == FilterUsers(users, {userId})
        otherUsers == FilterUsers(users, all \ {userId})
        prevOnlineUsers ==
            IF currentUser # <<>> THEN <<currentUser[1]>> \o otherUsers ELSE otherUsers
        currentIds == Ids(users)
        prevIds == Ids(prevOnlineUsers)
        joinedUsers == FilterUsers(users, (all \ prevIds) \ {userId})
        leftUsers == FilterUsers(prevOnlineUsers, (prevIds \ currentIds) \ {userId})
        systemMessages ==
            [i \in 1..Len(joinedUsers) |->
                SystemNotice("system-join", joinedUsers[i], m.now, m.rnd)]
            \o [i \in 1..Len(leftUsers) |->
                SystemNotice("system-left", leftUsers[i], m.now, m.rnd)]
    IN [m EXCEPT !.p.onlineUsers = users,
                 !.p.messages = @ \o systemMessages]

\* prevMessages.some(m => m.id === message.id)
HasId(messages, id) == \E i \in 1..Len(messages) : messages[i].id = id

\* the callback without the check for an entry with the same id
handleMessageReceived_NoDedup(m, message, userId) ==
    IF message.senderId = userId THEN m
    ELSE [m EXCEPT !.p.messages = Append(@, message)]

\* src/app/page.tsx 126-136; userId is the value the callback closed over
handleMessageReceived(m, message, userId) ==
    IF message.senderId = userId THEN m
    ELSE IF HasId(m.p.messages, message.id) THEN m
    ELSE [m EXCEPT !.p.messages = Append(@, message)]

\* ------------------------------------------------------------------ webrtc.ts: callback hooks
\* src/lib/webrtc.ts 40-44, 99-103: the hooks are no-ops until connect() sets them
onErrorCallback(m, error) ==
    LET m1 == [m EXCEPT !.errs = Append(@, error)]
    IN IF m.w.cb.set THEN handleError(m1, error) ELSE m1

onConnectedCallback(m) ==
    IF m.w.cb.set THEN handleConnectionSuccess(m) ELSE m

onDisconnectedCallback(m) ==
    LET m1 == [m EXCEPT !.calls = Append(@, "onDisconnected")]
    IN IF m.w.cb.set THEN handleDisconnection(m1, m.w.cb.connectionStatus) ELSE m1

onUserListUpdateCallback(m, users) ==
    IF m.w.cb.set THEN handleUserListUpdate(m, users, m.w.cb.userId) ELSE m

onMessageReceivedCallback(m, message) ==
    LET m1 == [m EXCEPT !.calls = Append(@, "onMessageReceived")]
    IN IF m.w.cb.set THEN handleMessageReceived(m1, message, m.w.cb.userId) ELSE m1

\* ------------------------------------------------------------------ webrtc.ts: links
\* closePeerConnection reporting an error for a peer id it holds nothing for
closePeerConnection_Strict(m, peerId) ==
    IF peerId \notin DOMAIN m.w.peers /\ peerId \notin DOMAIN m.w.dataChannels
    THEN onErrorCallback(m, "no such link")
    ELSE [m EXCEPT !.w.dataChannels = Remove(@, peerId),
                   !.w.peers = Remove(@, peerId),
                   !.w.events = @ \ {peerId}]

\* the function without the delete of the channel's reference
closePeerConnection_KeepChannel(m, peerId) ==
    [m EXCEPT !.w.peers = Remove(@, peerId), !.w.events = @ \ {peerId}]

\* src/lib/webrtc.ts 687-715.  Neither call removes a handler: dc.close()
\* leaves the channel's close event to come, and pc.close() leaves the
\* operations in flight on a closed connection with the handlers that await
\* them.  late holds these callbacks of connections that are gone; it is kept
\* only while one of them may still be delivered (m.lateLeft > 0).
closePeerConnection(m, peerId) ==
    LET w == m.w
        hasDc == peerId \in DOMAIN w.dataChannels
        hasPc == peerId \in DOMAIN w.peers
        closing == IF hasDc /\ (w.dataChannels[peerId].readyState \notin {"closed", "closing"}
                                \/ peerId \in w.events)
                   THEN {[k |-> "close", peerId |-> peerId, h |-> "onclose"]}
                   ELSE {}
        stale == IF hasPc
                 THEN {[k |-> "reject", peerId |-> peerId,
                        h |-> HandlerOf(w.peers[peerId].ops[i])] :
                           i \in 1..Len(w.peers[peerId].ops)}
                 ELSE {}
    IN [m EXCEPT !.w.dataChannels = Remove(@, peerId),
                 !.w.peers = Remove(@, peerId),
                 !.w.events = @ \ {peerId},
                 !.w.late = IF m.lateLeft > 0 THEN @ \cup closing \cup stale ELSE {}]

\* what the relay sees when a tab's socket goes away
SocketClosed == [ev |-> "disconnect", targetId |-> 0, sdp |-> 0, userId |-> 0, username |-> ""]

RECURSIVE CloseAll(_, _)
\* peerIds.forEach(peerId => closePeerConnection(peerId))
CloseAll(m, peerIds) ==
    IF peerIds = <<>> THEN m
    ELSE CloseAll(closePeerConnection(m, Head(peerIds)), Tail(peerIds))

\* src/lib/webrtc.ts 721-758.  currentSocket.disconnect() reaches the relay as
\* the socket's disconnect; removeAllListeners() ends the delivery of events.
cleanup(m) ==
    LET m1 == CloseAll(m, SetToSeq(DOMAIN m.w.peers))
        m2 == IF DOMAIN m1.w.peers # {} \/ DOMAIN m1.w.dataChannels # {}
              THEN [m1 EXCEPT !.w.peers = NoFn, !.w.dataChannels = NoFn]
              ELSE m1
        m3 == IF m2.w.socket # "null"
              THEN [m2 EXCEPT !.out = IF SocketConnected(m2.w)
                                      THEN Append(@, SocketClosed)
                                      ELSE @,
                              !.w.socket = "null"]
              ELSE m2
    IN [m3 EXCEPT !.w._isConnected = FALSE]

\* the function without its first check: a connection to oneself is created
createPeerConnection_Self(m, peerId, isInitiator) ==
    IF peerId \in DOMAIN m.w.peers \/ peerId \in DOMAIN m.w.dataChannels
    THEN [m |-> m, threw |-> peerId \notin DOMAIN m.w.peers]
    ELSE [m |-> [m EXCEPT !.w.peers = Put(@, peerId,
                              NewPc(Min(PcIds \ m.used), isInitiator)),
                          !.used = @ \cup {Min(PcIds \ m.used)}],
          threw |-> FALSE]

\* src/lib/webrtc.ts 431-596.  The result is the context and whether the call
\* threw; the connection it returns is peers[peerId].  The initiator branch
\* stores the data channel and starts the offer chain with createOffer().
createPeerConnection(m, peerId, isInitiator) ==
    IF peerId = m.w.localUserId THEN [m |-> m, threw |-> TRUE]
    ELSE IF peerId \in DOMAIN m.w.peers \/ peerId \in DOMAIN m.w.dataChannels
    THEN [m |-> m, threw |-> peerId \notin DOMAIN m.w.peers]
    ELSE IF PcIds \ m.used = {} THEN [m |-> m, threw |-> TRUE]
    ELSE LET id == Min(PcIds \ m.used)
             pc == NewPc(id, isInitiator)
         IN IF isInitiator
            THEN [m |-> [m EXCEPT !.w.peers = Put(@, peerId,
                                      [pc EXCEPT !.ops = <<[op |-> "createOffer", sdp |-> 0]>>]),
                                  !.w.dataChannels = Put(@, peerId,
                                      [readyState |-> "connecting", pc |-> id]),
                                  !.used = @ \cup {id}],
                  threw |-> FALSE]
            ELSE [m |-> [m EXCEPT !.w.peers = Put(@, peerId, pc),
                                  !.used = @ \cup {id}],
                  threw |-> FALSE]

\* ------------------------------------------------------------------ webrtc.ts: socket handlers
Enqueue(m, peerId, op) ==
    [m EXCEPT !.w.peers[peerId].ops = Append(@, op)]

\* socket.emit(ev, ...): the payload carries the local id and name where the
\* code puts them (join: both, offer: senderName)
Emit(m, ev, targetId, sdp) ==
    [m EXCEPT !.out = Append(@, [ev |-> ev, targetId |-> targetId, sdp |-> sdp,
                                 userId |-> IF ev = "join" THEN m.w.localUserId ELSE 0,
                                 username |-> IF ev \in {"join", "offer"}
                                              THEN m.w.localUsername ELSE ""])]

\* the handler announcing the user to the relay twice
OnConnect_JoinTwice(m) ==
    LET m1 == [m EXCEPT !.w._isConnected = TRUE, !.w.socket = "connected"]
    IN [onConnectedCallback(Emit(Emit(m1, "join", 0, 0), "join", 0, 0))
           EXCEPT !.w.promise = "resolved"]

\* src/lib/webrtc.ts 127-134
OnConnect(m) ==
    LET m1 == [m EXCEPT !.w._isConnected = TRUE, !.w.socket = "connected"]
    IN [onConnectedCallback(Emit(m1, "join", 0, 0)) EXCEPT !.w.promise = "resolved"]

\* src/lib/webrtc.ts 136-156: the promise is neither resolved nor rejected
OnConnectError(m) == cleanup(onErrorCallback(m, "connect_error"))

\* src/lib/webrtc.ts 158-176, for a reason other than 'io client disconnect'
OnDisconnect(m) ==
    LET wasConnected == m.w._isConnected
        m1 == [m EXCEPT !.w._isConnected = FALSE]
        m2 == IF wasConnected THEN onErrorCallback(m1, "lost connection") ELSE m1
    IN onDisconnectedCallback(cleanup(m2))

\* src/lib/webrtc.ts 158-176 for any reason the event is raised with
OnDisconnectFor(m, reason) ==
    LET wasConnected == m.w._isConnected
        m1 == [m EXCEPT !.w._isConnected = FALSE]
        m2 == IF wasConnected /\ reason # "io client disconnect"
              THEN onErrorCallback(m1, "lost connection")
              ELSE m1
    IN onDisconnectedCallback(cleanup(m2))

\* the listener without its cleanup: the socket and its listeners stay
OnSocketError_Keep(m) ==
    IF m.w._isConnected
    THEN onDisconnectedCallback(onErrorCallback(m, "socket error"))
    ELSE m

\* src/lib/webrtc.ts 307-316
OnSocketError(m) ==
    IF m.w._isConnected
    THEN onDisconnectedCallback(cleanup(onErrorCallback(m, "socket error")))
    ELSE m

RECURSIVE InitiateAll_Again(_, _)
\* the loop without its check: a user that has a link gets a new one
InitiateAll_Again(m, otherUsers) ==
    IF otherUsers = <<>> THEN [m |-> m, threw |-> FALSE]
    ELSE LET user == Head(otherUsers)
             r == createPeerConnection(
                      [m EXCEPT !.w.peers = Remove(@, user.id),
                                !.w.dataChannels = Remove(@, user.id)],
                      user.id, TRUE)
         IN IF r.threw THEN r ELSE InitiateAll_Again(r.m, Tail(otherUsers))

RECURSIVE InitiateAll(_, _)
\* src/lib/webrtc.ts 189-195
InitiateAll(m, otherUsers) ==
    IF otherUsers = <<>> THEN [m |-> m, threw |-> FALSE]
    ELSE LET user == Head(otherUsers)
             r == IF user.id \notin DOMAIN m.w.peers /\ user.id \notin DOMAIN m.w.dataChannels
                  THEN createPeerConnection(m, user.id, TRUE)
                  ELSE [m |-> m, threw |-> FALSE]
         IN IF r.threw THEN r ELSE InitiateAll(r.m, Tail(otherUsers))

\* users.filter(user => user.id !== localUserId), src/lib/webrtc.ts 186
OtherUsers(users, localUserId) == SelectSeq(users, LAMBDA user : user.id # localUserId)

\* the handler without its last loop: the departed users' links are kept
OnOnlineUsers_NoCleanup(m, users) ==
    IF ~m.w._isConnected THEN m
    ELSE InitiateAll(onUserListUpdateCallback(m, users),
                     OtherUsers(users, m.w.localUserId)).m

\* src/lib/webrtc.ts 178-205.  An exception of createPeerConnection leaves the
\* forEach and the handler.
OnOnlineUsers(m, users) ==
    IF ~m.w._isConnected THEN m
    ELSE LET m1 == onUserListUpdateCallback(m, users)
             otherUsers == OtherUsers(users, m1.w.localUserId)
             r == InitiateAll(m1, otherUsers)
             onlineUserIds == Ids(otherUsers)
         IN IF r.threw THEN r.m
            ELSE CloseAll(r.m, SetToSeq({peerId \in DOMAIN r.m.w.peers :
                                            peerId \notin onlineUserIds}))

\* the handler without the check of _isConnected
OnOffer_NoConnCheck(m, senderId, sdp) ==
    IF senderId = m.w.localUserId THEN m
    ELSE LET r == createPeerConnection(m, senderId, FALSE)
         IN IF r.threw
            THEN closePeerConnection(onErrorCallback(r.m, "offer"), senderId)
            ELSE Enqueue(r.m, senderId, [op |-> "setRemoteOffer", sdp |-> sdp])

\* the handler without the check of the sender against the local user id
OnOffer_NoSelfCheck(m, senderId, sdp) ==
    IF ~m.w._isConnected THEN m
    ELSE LET r == createPeerConnection(m, senderId, FALSE)
         IN IF r.threw
            THEN closePeerConnection(onErrorCallback(r.m, "offer"), senderId)
            ELSE Enqueue(r.m, senderId, [op |-> "setRemoteOffer", sdp |-> sdp])

\* the handler taking the initiator role for the offer it received
OnOffer_Initiator(m, senderId, sdp) ==
    IF ~m.w._isConnected THEN m
    ELSE IF senderId = m.w.localUserId THEN m
    ELSE LET r == createPeerConnection(m, senderId, TRUE)
         IN IF r.threw
            THEN closePeerConnection(onErrorCallback(r.m, "offer"), senderId)
            ELSE Enqueue(r.m, senderId, [op |-> "setRemoteOffer", sdp |-> sdp])

\* src/lib/webrtc.ts 208-236, up to the first await; the rest of the handler
\* runs as the operations it awaits settle (SettleOp)
OnOffer(m, senderId, sdp) ==
    IF ~m.w._isConnected THEN m
    ELSE IF senderId = m.w.localUserId THEN m
    ELSE LET r == createPeerConnection(m, senderId, FALSE)
         IN IF r.threw
            THEN closePeerConnection(onErrorCallback(r.m, "offer"), senderId)
            ELSE Enqueue(r.m, senderId, [op |-> "setRemoteOffer", sdp |-> sdp])

\* src/lib/webrtc.ts 239-266, up to the await
OnAnswer(m, senderId, sdp) ==
    IF ~m.w._isConnected THEN m
    ELSE IF senderId = m.w.localUserId THEN m
    ELSE IF senderId \in DOMAIN m.w.peers
            /\ m.w.peers[senderId].signalingState = "have-local-offer"
    THEN Enqueue(m, senderId, [op |-> "setRemoteAnswer", sdp |-> sdp])
    ELSE IF senderId \in DOMAIN m.w.peers
    THEN closePeerConnection(onErrorCallback(m, "unexpected answer"), senderId)
    ELSE m

\* src/lib/webrtc.ts 269-304, up to the await.  A null candidate is the end
\* of the candidates and is not added.
OnIceCandidate(m, senderId, candidate) ==
    IF ~m.w._isConnected THEN m
    ELSE IF senderId = m.w.localUserId THEN m
    ELSE IF senderId \in DOMAIN m.w.peers
    THEN IF m.w.peers[senderId].connectionState \in {"closed", "failed", "disconnected"}
         THEN m
         ELSE IF candidate # 0
         THEN Enqueue(m, senderId, [op |-> "addIceCandidate", sdp |-> candidate])
         ELSE m
    ELSE m

\* src/lib/webrtc.ts 459-473: pc.onicecandidate with a candidate, or with
\* null when the gathering is complete
onicecandidate(m, peerId) ==
    LET pc == m.w.peers[peerId]
        m1 == [m EXCEPT !.w.peers[peerId].ice =
                  IF pc.ice = "new" THEN "gathering" ELSE "complete"]
    IN IF ~SocketConnected(m.w) THEN m1
       ELSE Emit(m1, "ice-candidate", peerId, IF pc.ice = "new" THEN pc.id ELSE 0)

\* a description or a candidate that no connection of this code produced
ForeignSdp == -1

\* the catch blocks of src/lib/webrtc.ts 231-235, 253-257 and 563-567
Catch(m, peerId, h) == closePeerConnection(onErrorCallback(m, h), peerId)

\* the catch block of src/lib/webrtc.ts 288-297: the error is reported unless
\* its message is one of the two the handler takes for benign
CatchIce(m, benign) == IF benign THEN m ELSE onErrorCallback(m, "ice")

\* The operation at the head of a connection's operations chain settles, and
\* the code awaiting it runs on: src/lib/webrtc.ts 548-567 (the offer chain),
\* 219-230 (the offer handler) and 250-251 (the answer handler).  rollback says
\* whether the browser rolls a pending local offer back when a remote offer is
\* set in have-local-offer, or rejects with InvalidStateError.
SettleOp(m, peerId, rollback) ==
    LET pc == m.w.peers[peerId]
        op == Head(pc.ops)
        m0 == [m EXCEPT !.w.peers[peerId].ops = Tail(@)]
        sig == pc.signalingState
    IN CASE op.op = "createOffer" ->
                Enqueue(m0, peerId, [op |-> "setLocalOffer", sdp |-> 0])
         [] op.op = "setLocalOffer" ->
                IF sig \in {"stable", "have-local-offer"}
                THEN LET m1 == [m0 EXCEPT !.w.peers[peerId].signalingState = "have-local-offer"]
                     IN IF ~SocketConnected(m1.w) THEN Catch(m1, peerId, "chain")
                        ELSE Emit(m1, "offer", peerId, pc.id)
                ELSE Catch(m0, peerId, "chain")
         [] op.op = "setRemoteOffer" ->
                IF sig \in {"stable", "have-remote-offer"} \/ rollback
                THEN Enqueue([m0 EXCEPT !.w.peers[peerId].signalingState = "have-remote-offer",
                                        !.w.peers[peerId].remote = op.sdp],
                             peerId, [op |-> "createAnswer", sdp |-> 0])
                ELSE Catch(m0, peerId, "offer")
         [] op.op = "createAnswer" ->
                IF sig = "have-remote-offer"
                THEN Enqueue(m0, peerId, [op |-> "setLocalAnswer", sdp |-> 0])
                ELSE Catch(m0, peerId, "offer")
         [] op.op = "setLocalAnswer" ->
                IF sig = "have-remote-offer"
                THEN Emit([m0 EXCEPT !.w.peers[peerId].signalingState = "stable",
                                     !.w.peers[peerId].neg = "answerer"],
                          "answer", peerId, pc.id)
                ELSE Catch(m0, peerId, "offer")
         [] op.op = "setRemoteAnswer" ->
                IF sig = "have-local-offer"
                THEN [m0 EXCEPT !.w.peers[peerId].signalingState = "stable",
                                !.w.peers[peerId].remote = op.sdp,
                                !.w.peers[peerId].neg = "offerer"]
                ELSE Catch(m0, peerId, "answer")
         [] op.op = "addIceCandidate" ->
                IF op.sdp = ForeignSdp THEN CatchIce(m0, FALSE)
                ELSE IF pc.remote = 0 THEN CatchIce(m0, TRUE)
                ELSE m0

\* An operation that was in flight when its connection was closed rejects, and
\* the catch block of the handler awaiting it runs.  (In a browser that leaves
\* such a promise pending forever this step is never taken.)
RejectStale(m, t) ==
    IF t.h = "ice" THEN CatchIce(m, FALSE) ELSE Catch(m, t.peerId, t.h)

\* ------------------------------------------------------------------ webrtc.ts: connection and channel events
\* the handler leaving a link that lost its transport in place
OnConnectionStateChange_Keep(m, peerId, state) ==
    LET m1 == [m EXCEPT !.w.peers[peerId].connectionState = state]
    IN CASE state = "failed" -> onErrorCallback(m1, "peer failed")
         [] state = "disconnected" -> onErrorCallback(m1, "peer interrupted")
         [] OTHER -> m1

\* src/lib/webrtc.ts 485-530
OnConnectionStateChange(m, peerId, state) ==
    LET m1 == [m EXCEPT !.w.peers[peerId].connectionState = state]
    IN CASE state = "failed" ->
                closePeerConnection(onErrorCallback(m1, "peer failed"), peerId)
         [] state = "disconnected" ->
                closePeerConnection(onErrorCallback(m1, "peer interrupted"), peerId)
         [] state = "closed" -> closePeerConnection(m1, peerId)
         [] OTHER -> m1

\* src/lib/webrtc.ts 576-592 with setupDataChannel (604-680): the channel the
\* remote side created is announced, already open
OnDataChannel(m, peerId) ==
    LET m1 == [m EXCEPT !.w.peers[peerId].announced = TRUE]
    IN IF peerId \notin DOMAIN m1.w.dataChannels
       THEN [m1 EXCEPT !.w.dataChannels =
                Put(@, peerId, [readyState |-> "open", pc |-> m.w.peers[peerId].id])]
       ELSE m1

\* src/lib/webrtc.ts 612-621: dc.onopen only logs
OnDcOpen(m, peerId) == [m EXCEPT !.w.dataChannels[peerId].readyState = "open"]

\* the handler without its second half: the connection is left alone
OnDcClose_ChannelOnly(m, peerId) ==
    [m EXCEPT !.w.dataChannels = Remove(@, peerId)]

\* src/lib/webrtc.ts 623-636.  The handler deletes dataChannels[peerId] and then
\* closes the connection peers[peerId] if there is one; when the entry it
\* deleted was a channel still in use, closing the connection closes that
\* channel, as closePeerConnection does for an entry still in the map.
OnDcClose(m, peerId) ==
    IF peerId \in DOMAIN m.w.peers
       /\ m.w.peers[peerId].connectionState \notin {"closed", "failed"}
    THEN closePeerConnection(m, peerId)
    ELSE [m EXCEPT !.w.dataChannels = Remove(@, peerId)]

\* JSON.stringify(message) / JSON.parse(event.data): a payload is a string that
\* either is the JSON text of a value or is not JSON at all
JSONstringify(value) == [json |-> TRUE, value |-> value]

\* event.data of a binary message (an ArrayBuffer or a Blob), and the test
\* typeof event.data === 'string' (src/lib/webrtc.ts 652)
Binary == [json |-> FALSE, value |-> <<>>, binary |-> TRUE]

IsString(data) == "binary" \notin DOMAIN data

\* message && message.id && message.senderId && ... (src/lib/webrtc.ts 660)
WellFormed(message) ==
    /\ message.id # <<>>
    /\ message.senderId # 0
    /\ message.senderName # ""
    /\ message.text # ""
    /\ message.timestamp # 0

\* the handler without the check for messages that loop back
OnDcMessage_NoSelfCheck(m, data) ==
    IF ~IsString(data) THEN m
    ELSE IF ~data.json THEN onErrorCallback(m, "invalid message format")
    ELSE IF WellFormed(data.value) THEN onMessageReceivedCallback(m, data.value)
    ELSE onErrorCallback(m, "unreadable message")

\* src/lib/webrtc.ts 649-679
OnDcMessage(m, data) ==
    IF ~IsString(data) THEN m
    ELSE IF ~data.json THEN onErrorCallback(m, "invalid message format")
    ELSE LET message == data.value
         IN IF WellFormed(message)
            THEN IF message.senderId = m.w.localUserId THEN m
                 ELSE onMessageReceivedCallback(m, message)
            ELSE onErrorCallback(m, "unreadable message")

\* ------------------------------------------------------------------ webrtc.ts: public API
\* the function without its check of the connection it already has
connect_Again(m, userId, username, callbacks) ==
    LET m1 == IF m.w.socket # "null" THEN cleanup(m) ELSE m
    IN [m |-> [m1 EXCEPT !.w.localUserId = userId,
                         !.w.localUsername = username,
                         !.w.cb = callbacks,
                         !.w.socket = "connecting",
                         !.w.promise = "pending"],
        result |-> "pending"]

\* src/lib/webrtc.ts 61-125.  callbacks is what the caller's callbacks closed
\* over.  result: the promise resolved, rejected, or is pending on the socket.
connect(m, userId, username, callbacks) ==
    IF m.w._isConnected \/ SocketConnected(m.w)
    THEN IF m.w._isConnected
         THEN [m |-> [m EXCEPT !.w.promise = "resolved"], result |-> "resolved"]
         ELSE [m |-> [cleanup(m) EXCEPT !.w.promise = "rejected"], result |-> "rejected"]
    ELSE LET m1 == IF m.w.socket # "null" THEN cleanup(m) ELSE m
         IN [m |-> [m1 EXCEPT !.w.localUserId = userId,
                              !.w.localUsername = username,
                              !.w.cb = callbacks,
                              !.w.socket = "connecting",
                              !.w.promise = "pending"],
             result |-> "pending"]

\* the function without its two checks: it cleans up and notifies every time
disconnect_Always(m) ==
    onDisconnectedCallback(cleanup([m EXCEPT !.w._isConnected = FALSE]))

\* src/lib/webrtc.ts 324-343
disconnect(m) ==
    IF m.w.socket = "null" /\ ~m.w._isConnected THEN m
    ELSE LET wasConnected == m.w._isConnected
             m1 == cleanup([m EXCEPT !.w._isConnected = FALSE])
         IN IF wasConnected THEN onDisconnectedCallback(m1) ELSE m1

\* the connection at the far end of the channel to peerId
RemoteEnd(w, peerId) == IF peerId \in DOMAIN w.peers THEN w.peers[peerId].remote ELSE 0

RECURSIVE SendAll_AbortOnThrow(_, _, _, _)
\* the loop with the try around it instead of in it: the first dc.send that
\* throws ends the loop
SendAll_AbortOnThrow(m, peerIds, message, throws) ==
    IF peerIds = <<>> THEN m
    ELSE LET peerId == Head(peerIds)
             dc == m.w.dataChannels[peerId]
         IN IF dc.readyState = "open" /\ peerId \in throws
            THEN onErrorCallback(
                     [m EXCEPT !.sends = Append(@, [peerId |-> peerId, ok |-> FALSE])],
                     "send failed")
            ELSE SendAll_AbortOnThrow(
                     IF dc.readyState = "open"
                     THEN [m EXCEPT !.sends = Append(@, [peerId |-> peerId, ok |-> TRUE]),
                                    !.wire = Append(@, [dst |-> RemoteEnd(m.w, peerId),
                                                        own |-> m.w.peers[peerId].initiator,
                                                        data |-> JSONstringify(message)]),
                                    !.sent = TRUE]
                     ELSE IF dc.readyState \in {"closed", "closing"}
                     THEN [m EXCEPT !.w.dataChannels = Remove(@, peerId)]
                     ELSE m,
                     Tail(peerIds), message, throws)

RECURSIVE SendAll(_, _, _, _)
\* src/lib/webrtc.ts 377-403: the forEach over dataChannels.  throws is the set
\* of peers whose dc.send throws.  m.sent is sentToAnyPeer.
SendAll(m, peerIds, message, throws) ==
    IF peerIds = <<>> THEN m
    ELSE LET peerId == Head(peerIds)
             dc == m.w.dataChannels[peerId]
             m1 == IF dc.readyState = "open"
                   THEN IF peerId \in throws
                        THEN onErrorCallback(
                                 [m EXCEPT !.sends = Append(@, [peerId |-> peerId, ok |-> FALSE])],
                                 "send failed")
                        ELSE [m EXCEPT !.sends = Append(@, [peerId |-> peerId, ok |-> TRUE]),
                                       !.wire = Append(@, [dst |-> RemoteEnd(m.w, peerId),
                                                           own |-> m.w.peers[peerId].initiator,
                                                           data |-> JSONstringify(message)]),
                                       !.sent = TRUE]
                   ELSE IF dc.readyState \in {"closed", "closing"}
                        THEN [m EXCEPT !.w.dataChannels = Remove(@, peerId)]
                        ELSE m
         IN SendAll(m1, Tail(peerIds), message, throws)

\* broadcastMessage handing the message to the relay as well
broadcastMessage_ViaRelay(m, messageText, throws) ==
    IF m.w.localUserId = 0 \/ m.w.localUsername = ""
    THEN onErrorCallback(m, "user information not available")
    ELSE IF ~isConnected(m.w)
    THEN onErrorCallback(m, "not connected")
    ELSE LET message == [id |-> MsgId(m.now, m.w.localUserId),
                         senderId |-> m.w.localUserId,
                         senderName |-> m.w.localUsername,
                         text |-> messageText,
                         timestamp |-> Stamp(m.now, 0)]
         IN Emit(SendAll([m EXCEPT !.sent = FALSE],
                         SetToSeq(DOMAIN m.w.dataChannels), message, throws),
                 "message", 0, 0)

\* src/lib/webrtc.ts 355-417
broadcastMessage(m, messageText, throws) ==
    IF m.w.localUserId = 0 \/ m.w.localUsername = ""
    THEN onErrorCallback(m, "user information not available")
    ELSE IF ~isConnected(m.w)
    THEN onErrorCallback(m, "not connected")
    ELSE LET message == [id |-> MsgId(m.now, m.w.localUserId),
                         senderId |-> m.w.localUserId,
                         senderName |-> m.w.localUsername,
                         text |-> messageText,
                         timestamp |-> Stamp(m.now, 0)]
             m1 == SendAll([m EXCEPT !.sent = FALSE],
                           SetToSeq(DOMAIN m.w.dataChannels), message, throws)
         IN IF ~m1.sent /\ DOMAIN m1.w.dataChannels # {}
            THEN onErrorCallback(m1, "no active peer connections")
            ELSE m1

\* ------------------------------------------------------------------ page.tsx: user actions
\* src/app/page.tsx 158-200.  The callbacks handed to connect() are those of
\* the render the click happened in: they see that render's connectionStatus,
\* userId and username.
handleJoin(m, newUsername, newUserId) ==
    IF m.p.isConnecting THEN m
    ELSE LET callbacks == [set |-> TRUE, connectionStatus |-> m.p.connectionStatus,
                           userId |-> m.p.userId, username |-> m.p.username]
             m1 == [m EXCEPT !.p.isConnecting = TRUE,
                             !.p.connectionStatus = "connecting",
                             !.p.username = newUsername,
                             !.p.userId = newUserId]
             r == connect(m1, newUserId, newUsername, callbacks)
         IN IF r.result = "rejected"
            THEN [r.m EXCEPT !.p.isConnecting = FALSE,
                             !.p.connectionStatus = "error",
                             !.p.username = "",
                             !.p.userId = 0]
            ELSE r.m

\* src/app/page.tsx 202-208
handleLeave(m) ==
    LET connectionStatus == m.p.connectionStatus
        m1 == IF connectionStatus # "disconnected" THEN disconnect(m) ELSE m
    IN handleDisconnection(m1, connectionStatus)

\* the function without its first check: the text is added and broadcast in
\* any state
handleSendMessage_NoCheck(m, text, throws) ==
    LET newMessage == [id |-> MsgId(m.now, m.p.userId),
                       senderId |-> m.p.userId,
                       senderName |-> m.p.username,
                       text |-> text,
                       timestamp |-> Stamp(m.now, 0)]
    IN broadcastMessage([m EXCEPT !.p.messages = Append(@, newMessage)], text, throws)

\* toast({title: 'Error', description: 'Not connected.'}), src/app/page.tsx 212
NotConnected == "toast: Not connected."

\* src/app/page.tsx 210-230
handleSendMessage(m, text, throws) ==
    IF m.p.userId = 0 \/ m.p.username = "" \/ m.p.connectionStatus # "connected"
    THEN [m EXCEPT !.calls = Append(@, NotConnected)]
    ELSE LET newMessage == [id |-> MsgId(m.now, m.p.userId),
                            senderId |-> m.p.userId,
                            senderName |-> m.p.username,
                            text |-> text,
                            timestamp |-> Stamp(m.now, 0)]
         IN broadcastMessage([m EXCEPT !.p.messages = Append(@, newMessage)], text, throws)

\* src/app/page.tsx 234-241: useEffect(..., [connectionStatus]).  The cleanup
\* of the mounted effect runs with the connectionStatus of the render that
\* registered it (effStatus), and the effect of the render `rendered` mounts.
flushEffects(m, rendered) ==
    LET m1 == IF m.p.effStatus # "disconnected" THEN disconnect(m) ELSE m
    IN [m1 EXCEPT !.p.isConnecting = FALSE, !.p.effStatus = rendered]

\* the effects of the committed render are flushed
effectCleanup(m) == flushEffects(m, m.p.connectionStatus)

\* ------------------------------------------------------------------ README.md: the signaling relay
\* README.md 71: onlineUsers, a Map<socket, {userId, username}> in insertion order
RelayMsg(t, users, senderId, sdp) ==
    [t |-> t, users |-> users, senderId |-> senderId, sdp |-> sdp]

\* README.md 162-170: every connected socket gets the list
broadcastUserList(r, connected) ==
    LET users == [i \in 1..Len(r.users) |->
                     [id |-> r.users[i].userId, name |-> r.users[i].username]]
    IN [r EXCEPT !.inbox = [s \in Clients |->
            IF s \in connected
            THEN Append(r.inbox[s], RelayMsg("online-users", users, 0, 0))
            ELSE r.inbox[s]]]

\* README.md 173-180: the socket of the first entry with that userId, or none
findSocketByUserId(users, userId) ==
    LET hits == {i \in 1..Len(users) : users[i].userId = userId}
    IN IF hits = {} THEN {} ELSE {users[Min(hits)].socket}

\* README.md 183-185
getUserInfo(users, socket) ==
    LET hits == {i \in 1..Len(users) : users[i].socket = socket}
    IN IF hits = {} THEN {} ELSE {users[Min(hits)]}

\* a relay that hands a signalling event to every other connected socket
RelayOn_Broadcast(r, c, e, connected) ==
    LET at == {i \in 1..Len(r.users) : r.users[i].socket = c}
        info == getUserInfo(r.users, c)
        senderId == IF info = {} THEN 0 ELSE (CHOOSE x \in info : TRUE).userId
    IN CASE e.ev = "join" ->
                IF e.userId = 0 \/ e.username = "" THEN r
                ELSE LET entry == [socket |-> c, userId |-> e.userId, username |-> e.username]
                     IN broadcastUserList(
                            [r EXCEPT !.users = IF at = {} THEN Append(@, entry)
                                                ELSE [@ EXCEPT ![Min(at)] = entry]],
                            connected)
         [] e.ev = "disconnect" ->
                broadcastUserList(
                    [r EXCEPT !.users = SelectSeq(@, LAMBDA u : u.socket # c)], connected)
         [] e.ev \in {"offer", "answer", "ice-candidate"} ->
                [r EXCEPT !.inbox = [s \in DOMAIN r.inbox |->
                    IF s \in connected \ {c}
                    THEN Append(r.inbox[s], RelayMsg(e.ev, <<>>, senderId, e.sdp))
                    ELSE r.inbox[s]]]
         [] OTHER -> r

\* README.md 74-160: the relay's handlers for one event e of socket c
RelayOn(r, c, e, connected) ==
    LET at == {i \in 1..Len(r.users) : r.users[i].socket = c}
    IN CASE e.ev = "join" ->
                IF e.userId = 0 \/ e.username = "" THEN r
                ELSE LET entry == [socket |-> c, userId |-> e.userId, username |-> e.username]
                     IN broadcastUserList(
                            [r EXCEPT !.users = IF at = {} THEN Append(@, entry)
                                                ELSE [@ EXCEPT ![Min(at)] = entry]],
                            connected)
         [] e.ev = "disconnect" ->
                broadcastUserList(
                    [r EXCEPT !.users = SelectSeq(@, LAMBDA u : u.socket # c)], connected)
         [] e.ev \in {"offer", "answer"} ->
                IF e.targetId = 0 \/ e.sdp = 0 THEN r
                ELSE LET target == findSocketByUserId(r.users, e.targetId)
                         info == getUserInfo(r.users, c)
                     IN IF target = {} THEN r
                        ELSE LET s == CHOOSE x \in target : TRUE
                                 senderId == IF info = {} THEN 0
                                             ELSE (CHOOSE x \in info : TRUE).userId
                             IN IF s \in connected
                                THEN [r EXCEPT !.inbox[s] =
                                         Append(@, RelayMsg(e.ev, <<>>, senderId, e.sdp))]
                                ELSE r
         [] e.ev = "ice-candidate" ->
                IF e.targetId = 0 THEN r
                ELSE LET target == findSocketByUserId(r.users, e.targetId)
                         info == getUserInfo(r.users, c)
                     IN IF target = {} THEN r
                        ELSE LET s == CHOOSE x \in target : TRUE
                                 senderId == IF info = {} THEN 0
                                             ELSE (CHOOSE x \in info : TRUE).userId
                             IN IF s \in connected
                                THEN [r EXCEPT !.inbox[s] =
                                         Append(@, RelayMsg(e.ev, <<>>, senderId, e.sdp))]
                                ELSE r
         [] OTHER -> r

RECURSIVE RelayAll(_, _, _, _)
RelayAll(r, c, out, connected) ==
    IF out = <<>> THEN r
    ELSE RelayAll(RelayOn(r, c, Head(out), connected), c, Tail(out), connected)

\* ------------------------------------------------------------------ the browser's transport
\* every open RTCPeerConnection of every tab
LivePcs == UNION {{webrtc[c].peers[k] : k \in DOMAIN webrtc[c].peers} : c \in Clients}

PcById(id) == {pc \in LivePcs : pc.id = id}

\* identities some description, operation or payload still refers to
UsedPcIds ==
    {pc.id : pc \in LivePcs} \cup {pc.remote : pc \in LivePcs}
    \cup UNION {{pc.ops[i].sdp : i \in 1..Len(pc.ops)} : pc \in LivePcs}
    \cup UNION {{inbox[c][i].sdp : i \in 1..Len(inbox[c])} : c \in Clients}
    \cup {wire[i].dst : i \in 1..Len(wire)}

\* the connection whose description pc holds has been closed
Orphan(pc) == pc.remote # 0 /\ PcById(pc.remote) = {}

\* pc and the connection at its far end completed one offer/answer exchange
\* with each other
Matched(pc) ==
    /\ pc.neg # "none"
    /\ \E q \in PcById(pc.remote) :
          /\ q.remote = pc.id
          /\ {pc.neg, q.neg} = {"offerer", "answerer"}

\* A payload x sent on a channel reaches a handler of tab w: the channel the
\* initiator created has an onmessage handler at its far end only if that end
\* set ondatachannel (it is not an initiator itself), and a payload sent on an
\* announced channel arrives on the channel its creator holds.
Receivable(w, x) ==
    \E k \in DOMAIN w.peers :
        LET pc == w.peers[k]
        IN /\ pc.id = x.dst
           /\ pc.initiator # x.own
           /\ \/ /\ k \in DOMAIN w.dataChannels
                 /\ w.dataChannels[k].readyState \in {"connecting", "open"}
              \/ ~pc.initiator /\ ~pc.announced

\* ------------------------------------------------------------------ actions
Ctx(c) ==
    [w |-> webrtc[c], p |-> page[c], out |-> <<>>, errs |-> <<>>, calls |-> <<>>,
     sends |-> <<>>, sent |-> FALSE, wire |-> wire, used |-> UsedPcIds,
     now |-> now, rnd |-> 0, lateLeft |-> MaxLate - nlate]

\* the step a handler made: what it was called with and what it called
Step(op, c, peerId, arg, m) ==
    [op |-> op, c |-> c, peerId |-> peerId, arg |-> arg,
     errs |-> m.errs, calls |-> m.calls, out |-> m.out, sends |-> m.sends]

\* React renders after a handler that changed connectionStatus, and before it
\* renders it flushes the effects of the previous render if they are still
\* pending (the mounted effect is not that render's).
Render(c, m) ==
    IF /\ m.p.connectionStatus # page[c].connectionStatus
       /\ m.p.effStatus # page[c].connectionStatus
    THEN flushEffects(m, page[c].connectionStatus)
    ELSE m

\* callbacks of closed connections are kept while one may still be delivered
Forget(ws, lateLeft) ==
    IF lateLeft > 0 THEN ws ELSE [s \in Clients |-> [ws[s] EXCEPT !.late = {}]]

\* the new values of the variables a handler step changes
Store(c, m, ws, r, step) ==
    /\ webrtc' = ws
    /\ page' = [page EXCEPT ![c] = m.p]
    /\ relayUsers' = r.users
    /\ inbox' = r.inbox
    /\ wire' = SelectSeq(m.wire, LAMBDA x : \E s \in Clients : Receivable(ws[s], x))
    /\ last' = step

\* What the tab emitted goes through the relay; a socket that is gone
\* delivers nothing more; payloads for a channel that is gone are lost.
Deliver(c, m, ws, ib, extra, step) ==
    Store(c, m, ws,
          RelayAll([users |-> relayUsers,
                    inbox |-> [ib EXCEPT ![c] = IF SocketConnected(ws[c]) THEN @ ELSE <<>>]],
                   c, m.out \o extra, {s \in Clients : SocketConnected(ws[s])}),
          step)

\* the handler's result, rendered, becomes the tab's state
Commit(c, m, ib, extra, step) ==
    Deliver(c, m, Forget([webrtc EXCEPT ![c] = m.w], m.lateLeft), ib, extra, step)

\* tab c runs a handler: m is the context the handler left
Do(c, m, op, peerId, arg) ==
    Commit(c, Render(c, m), inbox, <<>>, Step(op, c, peerId, arg, m))

InitStep == [op |-> "init", c |-> "a", peerId |-> 0, arg |-> <<>>,
             errs |-> <<>>, calls |-> <<>>, out |-> <<>>, sends |-> <<>>]

Init ==
    /\ webrtc = [c \in Clients |-> InitWebrtc]
    /\ page = [c \in Clients |-> InitPage]
    /\ relayUsers = <<>>
    /\ inbox = [c \in Clients |-> <<>>]
    /\ wire = <<>>
    /\ now = 1
    /\ nextId = 1
    /\ faults = 0
    /\ nsends = 0
    /\ nlate = 0
    /\ last = InitStep

\* the context of a handler that reads the clock at t
At(m, t) == [m EXCEPT !.now = t]

\* what Date.now() can return: time does not run backwards
Clock == now..MaxClock

\* The Join button can be clicked: the login screen is shown (page.tsx 247),
\* or a click has just been handled and the page has not rendered since, so
\* that the effects, which reset isConnecting (page.tsx 239), have not run.
JoinClickable(c) ==
    \/ page[c].connectionStatus \in {"disconnected", "error"}
    \/ page[c].isConnecting

\* the user clicks Join; Date.now() and Math.random() give the join an id of
\* its own (page.tsx 172) unless the click is ignored
HandleJoin(c) ==
    /\ JoinClickable(c)
    /\ nextId <= MaxIds
    /\ Do(c, handleJoin(Ctx(c), c, nextId), "handleJoin", 0, <<nextId>>)
    /\ nextId' = IF page[c].isConnecting THEN nextId ELSE nextId + 1
    /\ UNCHANGED <<now, faults, nsends, nlate>>

\* the chat screen is shown (page.tsx 302) and the user clicks Leave
HandleLeave(c) ==
    /\ page[c].connectionStatus = "connected"
    /\ Do(c, handleLeave(Ctx(c)), "handleLeave", 0, <<>>)
    /\ UNCHANGED <<now, nextId, faults, nsends, nlate>>

\* handleSendMessage is called with a text: by the chat screen while it is
\* shown (page.tsx 302), and the function guards itself against a call in any
\* other state of a tab that has joined; dc.send may throw
HandleSendMessage(c) ==
    /\ webrtc[c].cb.set
    /\ MaySend
    /\ \E t \in Clock, throws \in SUBSET DOMAIN webrtc[c].dataChannels :
          /\ throws # {} => faults + nsends + 1 < MaxInputs /\ faults < MaxFaults
          /\ throws # {} => page[c].connectionStatus = "connected"
          /\ \A k \in throws : webrtc[c].dataChannels[k].readyState = "open"
          /\ Do(c, handleSendMessage(At(Ctx(c), t), Texts[(nsends % Len(Texts)) + 1], throws),
                "handleSendMessage", 0, <<Texts[(nsends % Len(Texts)) + 1], throws>>)
          /\ faults' = IF throws # {} THEN faults + 1 ELSE faults
          /\ now' = t
    /\ nsends' = nsends + 1
    /\ UNCHANGED <<nextId, nlate>>

\* React flushes the effects of the render it committed: the cleanup of the
\* previous render's effect runs (page.tsx 234-241)
EffectCleanup(c) ==
    /\ page[c].effStatus # page[c].connectionStatus
    /\ Do(c, effectCleanup(Ctx(c)), "effectCleanup", 0, <<>>)
    /\ UNCHANGED <<now, nextId, faults, nsends, nlate>>

\* the socket's 'connect' event
SocketConnect(c) ==
    /\ webrtc[c].socket = "connecting"
    /\ \E t \in Clock :
          /\ Do(c, OnConnect(At(Ctx(c), t)), "connect", 0, <<>>)
          /\ now' = t
    /\ UNCHANGED <<nextId, faults, nsends, nlate>>

\* the socket's 'connect_error' event
SocketConnectError(c) ==
    /\ webrtc[c].socket = "connecting"
    /\ MayFault
    /\ Do(c, OnConnectError(Ctx(c)), "connect_error", 0, <<>>)
    /\ faults' = faults + 1
    /\ UNCHANGED <<now, nextId, nsends, nlate>>

\* the socket's 'error' event, raised while the socket exists
SocketError(c) ==
    /\ webrtc[c].socket # "null"
    /\ MayFault
    /\ Do(c, OnSocketError(Ctx(c)), "error", 0, <<>>)
    /\ faults' = faults + 1
    /\ UNCHANGED <<now, nextId, nsends, nlate>>

\* the context of the 'disconnect' handler: socket.connected is already false
Dropped(m) == [m EXCEPT !.w.socket = "closed"]

\* the socket's 'disconnect' event: the connection to the relay is lost and
\* the relay sees the socket go
SocketDisconnect(c) ==
    /\ webrtc[c].socket = "connected"
    /\ MayFault
    /\ Commit(c, Render(c, OnDisconnect(Dropped(Ctx(c)))), inbox, <<SocketClosed>>,
              Step("disconnect", c, 0, <<>>, OnDisconnect(Dropped(Ctx(c)))))
    /\ faults' = faults + 1
    /\ UNCHANGED <<now, nextId, nsends, nlate>>

\* the socket's listener for relay event e (src/lib/webrtc.ts 178, 208, 239,
\* 269)
OnRelayEvent(m, e) ==
    CASE e.t = "online-users" -> OnOnlineUsers(m, e.users)
      [] e.t = "offer" -> OnOffer(m, e.senderId, e.sdp)
      [] e.t = "answer" -> OnAnswer(m, e.senderId, e.sdp)
      [] e.t = "ice-candidate" -> OnIceCandidate(m, e.senderId, e.sdp)

\* the next event from the relay reaches the socket's listener
RelayEvent(c) ==
    /\ webrtc[c].socket = "connected"
    /\ inbox[c] # <<>>
    /\ Commit(c, Render(c, OnRelayEvent(Ctx(c), Head(inbox[c]))),
              [inbox EXCEPT ![c] = Tail(@)], <<>>,
              Step(Head(inbox[c]).t, c, Head(inbox[c]).senderId, Head(inbox[c]).users,
                   OnRelayEvent(Ctx(c), Head(inbox[c]))))
    /\ UNCHANGED <<now, nextId, faults, nsends, nlate>>

\* the context of a handler that runs while the engine constructs at most k
\* more connections: past that, new RTCPeerConnection() throws
\* (src/lib/webrtc.ts 456)
Limited(m, k) ==
    [m EXCEPT !.used = IF k = 0 \/ PcIds \ m.used = {} THEN PcIds
                       ELSE PcIds \ {Min(PcIds \ m.used)}]

\* a roster reaches the socket's listener while the engine is short of
\* connections
RosterExhausted(c) ==
    /\ webrtc[c].socket = "connected"
    /\ inbox[c] # <<>>
    /\ Head(inbox[c]).t = "online-users"
    /\ MayFault
    /\ \E k \in 0..1 :
          Commit(c, Render(c, OnRelayEvent(Limited(Ctx(c), k), Head(inbox[c]))),
                 [inbox EXCEPT ![c] = Tail(@)], <<>>,
                 Step("online-users", c, 0, Head(inbox[c]).users,
                      OnRelayEvent(Limited(Ctx(c), k), Head(inbox[c]))))
    /\ faults' = faults + 1
    /\ UNCHANGED <<now, nextId, nsends, nlate>>

\* What a socket that does not run this code can have the relay deliver to a
\* tab: the relay forwards whatever a socket emits, under the user id the
\* socket joined with (README.md 87-135), which is none if it never joined and
\* may be the id of the tab it writes to.
ForeignEvents ==
    {RelayMsg(t, <<>>, senderId, sdp) :
        t \in {"offer", "answer", "ice-candidate"}, senderId \in 0..3,
        sdp \in {ForeignSdp}}

\* a signalling event that this code did not send reaches the socket's listener
ForeignSignal(c) ==
    /\ webrtc[c].socket = "connected"
    /\ MayFault
    /\ \E e \in ForeignEvents :
          Do(c, OnRelayEvent(Ctx(c), e), e.t, e.senderId, <<e.sdp>>)
    /\ faults' = faults + 1
    /\ UNCHANGED <<now, nextId, nsends, nlate>>

\* a connection that has a local description gathers its candidates
IceCandidate(c) ==
    /\ \E peerId \in DOMAIN webrtc[c].peers :
          /\ webrtc[c].peers[peerId].ice # "complete"
          /\ \/ webrtc[c].peers[peerId].signalingState = "have-local-offer"
             \/ webrtc[c].peers[peerId].neg # "none"
          /\ Do(c, onicecandidate(Ctx(c), peerId), "icecandidate", peerId, <<>>)
    /\ UNCHANGED <<now, nextId, faults, nsends, nlate>>

\* the operation at the head of a connection's chain settles
Settle(c) ==
    /\ \E peerId \in DOMAIN webrtc[c].peers, rollback \in BOOLEAN :
          /\ webrtc[c].peers[peerId].ops # <<>>
          /\ rollback => /\ Head(webrtc[c].peers[peerId].ops).op = "setRemoteOffer"
                          /\ webrtc[c].peers[peerId].signalingState = "have-local-offer"
          /\ Do(c, SettleOp(Ctx(c), peerId, rollback),
                Head(webrtc[c].peers[peerId].ops).op, peerId, <<rollback>>)
    /\ UNCHANGED <<now, nextId, faults, nsends, nlate>>

\* the context of a late callback t: it is delivered, and the others are kept
\* while one more may be
Late(m, t) ==
    [m EXCEPT !.lateLeft = @ - 1, !.w.late = IF m.lateLeft > 1 THEN @ \ {t} ELSE {}]

\* an operation on a closed connection rejects
StaleReject(c) ==
    /\ nlate < MaxLate
    /\ \E t \in webrtc[c].late :
          /\ t.k = "reject"
          /\ Do(c, RejectStale(Late(Ctx(c), t), t), "staleReject", t.peerId, <<t.h>>)
    /\ nlate' = nlate + 1
    /\ UNCHANGED <<now, nextId, faults, nsends>>

\* the close event of a channel that closePeerConnection closed reaches dc.onclose
LateClose(c) ==
    /\ nlate < MaxLate
    /\ \E t \in webrtc[c].late :
          /\ t.k = "close"
          /\ Do(c, OnDcClose(Late(Ctx(c), t), t.peerId), "lateClose", t.peerId, <<>>)
    /\ nlate' = nlate + 1
    /\ UNCHANGED <<now, nextId, faults, nsends>>

\* the transport between two matched connections comes up
PcConnected(c) ==
    /\ \E peerId \in DOMAIN webrtc[c].peers :
          /\ webrtc[c].peers[peerId].connectionState = "new"
          /\ Matched(webrtc[c].peers[peerId])
          /\ Do(c, OnConnectionStateChange(Ctx(c), peerId, "connected"),
                "pcConnected", peerId, <<>>)
    /\ UNCHANGED <<now, nextId, faults, nsends, nlate>>

\* the states a connection that loses its transport can go to
LostStates(pc) ==
    IF pc.connectionState = "connected" THEN {"disconnected", "failed"} ELSE {"failed"}

\* A connection loses its transport, or one that never came up gives up.
\* With the far end gone this is what happens; between two live ends it is a
\* fault of the network.
PcLost(c) ==
    /\ \E peerId \in DOMAIN webrtc[c].peers :
          /\ webrtc[c].peers[peerId].neg # "none"
          /\ Matched(webrtc[c].peers[peerId]) => MayFault
          /\ \E state \in LostStates(webrtc[c].peers[peerId]) :
                Do(c, OnConnectionStateChange(Ctx(c), peerId, state), state, peerId, <<>>)
          /\ faults' = IF Matched(webrtc[c].peers[peerId]) THEN faults + 1 ELSE faults
    /\ UNCHANGED <<now, nextId, nsends, nlate>>

\* the channel a connection created opens once its transport is up
DcOpen(c) ==
    /\ \E peerId \in DOMAIN webrtc[c].dataChannels :
          /\ peerId \in DOMAIN webrtc[c].peers
          /\ webrtc[c].dataChannels[peerId].readyState = "connecting"
          /\ webrtc[c].peers[peerId].connectionState = "connected"
          /\ webrtc[c].peers[peerId].initiator
          /\ Matched(webrtc[c].peers[peerId])
          /\ Do(c, OnDcOpen(Ctx(c), peerId), "dcOpen", peerId, <<>>)
    /\ UNCHANGED <<now, nextId, faults, nsends, nlate>>

\* the channel the offerer created is announced to the answering side
DataChannel(c) ==
    /\ \E peerId \in DOMAIN webrtc[c].peers :
          /\ ~webrtc[c].peers[peerId].initiator
          /\ ~webrtc[c].peers[peerId].announced
          /\ webrtc[c].peers[peerId].connectionState = "connected"
          /\ Matched(webrtc[c].peers[peerId])
          /\ Do(c, OnDataChannel(Ctx(c), peerId), "datachannel", peerId, <<>>)
    /\ UNCHANGED <<now, nextId, faults, nsends, nlate>>

\* the context in which the channel to peerId has gone to closed and its
\* close event is on its way
RemoteClosed(m, peerId) ==
    [m EXCEPT !.w.dataChannels[peerId].readyState = "closed",
              !.w.events = @ \cup {peerId}]

\* the far end closed its connection: the channel closes
DcRemoteClose(c) ==
    /\ \E peerId \in DOMAIN webrtc[c].dataChannels :
          /\ peerId \in DOMAIN webrtc[c].peers
          /\ webrtc[c].dataChannels[peerId].readyState = "open"
          /\ Orphan(webrtc[c].peers[peerId])
          /\ Do(c, RemoteClosed(Ctx(c), peerId), "dcRemoteClose", peerId, <<>>)
    /\ UNCHANGED <<now, nextId, faults, nsends, nlate>>

\* the context of a close event: it is no longer pending
Fired(m, peerId) == [m EXCEPT !.w.events = @ \ {peerId}]

\* the close event of a channel the far end closed reaches dc.onclose
DcClose(c) ==
    /\ \E peerId \in webrtc[c].events :
          Do(c, OnDcClose(Fired(Ctx(c), peerId), peerId), "dcClose", peerId, <<>>)
    /\ UNCHANGED <<now, nextId, faults, nsends, nlate>>

\* the context of a message event: the payload has left the wire
Taken(m, i) == [m EXCEPT !.wire = SelectSeqIdx(@, i)]

\* the oldest payload in flight to an open channel reaches dc.onmessage
DcMessage(c) ==
    /\ \E i \in 1..Len(wire), peerId \in DOMAIN webrtc[c].dataChannels :
          /\ peerId \in DOMAIN webrtc[c].peers
          /\ webrtc[c].peers[peerId].id = wire[i].dst
          /\ webrtc[c].peers[peerId].initiator # wire[i].own
          /\ webrtc[c].dataChannels[peerId].readyState = "open"
          /\ \A j \in 1..(i - 1) : wire[j].dst # wire[i].dst
          /\ Do(c, OnDcMessage(Taken(Ctx(c), i), wire[i].data),
                "dcMessage", peerId, wire[i].data)
    /\ UNCHANGED <<now, nextId, faults, nsends, nlate>>

\* What the far end of a channel can hand over when it is not this code that
\* sends: binary data, text that is not JSON, JSON without the fields of a message, or a
\* message in the name of any user.
Foreign ==
    {Binary, [json |-> FALSE, value |-> <<>>],
     JSONstringify([id |-> <<>>, senderId |-> 0, senderName |-> "", text |-> "x",
                    timestamp |-> 0])}
    \cup {JSONstringify([id |-> MsgId(1, i), senderId |-> i, senderName |-> "z",
                          text |-> "x", timestamp |-> Stamp(1, 0)]) : i \in 1..3}

\* a payload that this code did not send reaches dc.onmessage
DcForeign(c) ==
    /\ MayFault
    /\ \E peerId \in DOMAIN webrtc[c].dataChannels, data \in Foreign :
          /\ peerId \in DOMAIN webrtc[c].peers
          /\ webrtc[c].dataChannels[peerId].readyState = "open"
          /\ Matched(webrtc[c].peers[peerId])
          /\ Do(c, OnDcMessage(Ctx(c), data), "dcForeign", peerId, data)
    /\ faults' = faults + 1
    /\ UNCHANGED <<now, nextId, nsends, nlate>>

\* what a tab does from the click on Join to its links being negotiated
Signal(c) ==
    \/ HandleJoin(c)
    \/ SocketConnect(c)
    \/ SocketConnectError(c)

\* what a tab does once it is in a session
Session(c) ==
    \/ HandleLeave(c)
    \/ HandleSendMessage(c)
    \/ EffectCleanup(c)
    \/ SocketDisconnect(c)
    \/ RelayEvent(c)
    \/ Settle(c)
    \/ IceCandidate(c)
    \/ ForeignSignal(c)
    \/ StaleReject(c)
    \/ LateClose(c)
    \/ PcLost(c)

\* what the links of a tab do once they are negotiated
Channel(c) ==
    \/ PcConnected(c)
    \/ DcOpen(c)
    \/ DataChannel(c)
    \/ DcRemoteClose(c)
    \/ DcClose(c)
    \/ DcMessage(c)
    \/ DcForeign(c)

Next == \E c \in Clients : Signal(c) \/ Session(c) \/ Channel(c)

Spec == Init /\ [][Next]_vars

\* ------------------------------------------------------------------ two tabs joining
\* Two tabs open the page and join.  Both initiate towards each other, so no
\* link of theirs is ever negotiated (C2) and no step of Channel is enabled.
Pair == {"a", "b"}

NextJoin ==
    \E c \in Pair :
        \/ Signal(c)
        \/ HandleLeave(c)
        \/ EffectCleanup(c)
        \/ SocketDisconnect(c)
        \/ RelayEvent(c)
        \/ Settle(c)
        \/ StaleReject(c)
        \/ LateClose(c)
        \/ PcLost(c)

SpecJoin == Init /\ [][NextJoin]_vars

\* ------------------------------------------------------------------ the ends of a session
\* Two tabs join, and their sessions end by a leave, by the page's effect
\* cleanup, by the loss of the relay connection or by a socket error.
NextEnd ==
    \E c \in Pair :
        \/ Signal(c)
        \/ HandleLeave(c)
        \/ EffectCleanup(c)
        \/ SocketDisconnect(c)
        \/ SocketError(c)
        \/ RelayEvent(c)
        \/ Settle(c)

SpecEnd == Init /\ [][NextEnd]_vars

\* The same sessions with what the runtime guarantees: a socket that is
\* connecting gets 'connect' or 'connect_error' (socket.io gives up after
\* timeout, webrtc.ts 107), React flushes the effects of a committed render,
\* the relay's events are delivered and the operations of a connection settle.
FairEnd ==
    \A c \in Pair :
        /\ WF_vars(SocketConnect(c) \/ SocketConnectError(c))
        /\ WF_vars(EffectCleanup(c))
        /\ WF_vars(RelayEvent(c))
        /\ WF_vars(Settle(c))

SpecSettle == Init /\ [][NextEnd]_vars /\ FairEnd

\* ------------------------------------------------------------------ three tabs in a session
\* The three tabs have joined as users 1, 2, 3 and every pair of them has
\* negotiated a link: the user with the smaller id created it as initiator
\* and made the offer, the other answered.  The link of 1 and 2 is up, its
\* channel open at both ends; that of 1 and 3 is up and its channel is about
\* to be announced to 3; the transport of the link of 2 and 3 is not up yet.
MeshId == [a |-> 1, b |-> 2, c |-> 3]
MeshTab == [i \in 1..3 |-> CHOOSE c \in Clients : MeshId[c] = i]
MeshUsers == [i \in 1..3 |-> [id |-> i, name |-> MeshTab[i]]]

\* the connection of user i for its link with user j
MeshPc(i, j) == 3 * (i - 1) + j

MeshPeers(i) ==
    [j \in (1..3) \ {i} |->
        [NewPc(MeshPc(i, j), i < j) EXCEPT
            !.remote = MeshPc(j, i),
            !.neg = IF i < j THEN "offerer" ELSE "answerer",
            !.connectionState = IF {i, j} = {2, 3} THEN "new" ELSE "connected",
            !.announced = {i, j} = {1, 2} /\ i > j,
            !.ice = IF {i, j} = {2, 3} THEN "new" ELSE "complete"]]

MeshChannels(i) ==
    [j \in {k \in (1..3) \ {i} : i < k \/ {i, k} = {1, 2}} |->
        [readyState |-> IF {i, j} = {2, 3} THEN "connecting" ELSE "open",
         pc |-> MeshPc(i, j)]]

InitMesh ==
    /\ webrtc = [c \in Clients |->
          [InitWebrtc EXCEPT
              !.socket = "connected", !._isConnected = TRUE, !.promise = "resolved",
              !.localUserId = MeshId[c], !.localUsername = c,
              !.cb = [NoCallbacks EXCEPT !.set = TRUE],
              !.peers = MeshPeers(MeshId[c]),
              !.dataChannels = MeshChannels(MeshId[c])]]
    /\ page = [c \in Clients |->
          [InitPage EXCEPT
              !.username = c, !.userId = MeshId[c],
              !.connectionStatus = "connected", !.effStatus = "connecting",
              !.onlineUsers = MeshUsers,
              !.messages = <<[id |-> <<"system-join", 1, 0>>, senderId |-> SystemId,
                              senderName |-> "System", text |-> "joined",
                              timestamp |-> Stamp(1, 0)]>>]]
    /\ relayUsers = [i \in 1..3 |->
          [socket |-> MeshTab[i], userId |-> i, username |-> MeshTab[i]]]
    /\ inbox = [c \in Clients |-> <<>>]
    /\ wire = <<>>
    /\ now = 1
    /\ nextId = 4
    /\ faults = 0
    /\ nsends = 0
    /\ nlate = 0
    /\ last = InitStep

NextMesh == \E c \in Clients : HandleSendMessage(c) \/ PcLost(c) \/ Channel(c)

SpecMesh == InitMesh /\ [][NextMesh]_vars

\* Candidates trickle between the linked tabs, and a socket that does not run
\* this code writes to one of them.
NextForeign ==
    \E c \in Clients :
        \/ ForeignSignal(c)
        \/ IceCandidate(c)
        \/ RelayEvent(c)
        \/ Settle(c)

SpecForeign == InitMesh /\ [][NextForeign]_vars

\* Three linked tabs that chat while two of them still exchange candidates:
\* what goes to the relay next to what goes over the channels.
NextChat ==
    \E c \in Clients :
        \/ HandleSendMessage(c)
        \/ DcMessage(c)
        \/ IceCandidate(c)
        \/ RelayEvent(c)
        \/ Settle(c)

SpecChat == InitMesh /\ [][NextChat]_vars

\* ------------------------------------------------------------------ a third tab joining two linked tabs
\* Tabs a and b are in a session as users 1 and 2 with their link up, as in
\* InitMesh.  Tab c has clicked Join: it is user 3, its socket is connecting
\* and the relay has not heard of it.
Linked == {"a", "b"}

Restrict(f, S) == [k \in DOMAIN f \cap S |-> f[k]]

\* the tab after handleJoin ran on the login screen, the page rendered and
\* its effects were flushed
Joining(c) ==
    effectCleanup(
        handleJoin([w |-> InitWebrtc, p |-> InitPage, out |-> <<>>, errs |-> <<>>,
                    calls |-> <<>>, sends |-> <<>>, sent |-> FALSE, wire |-> <<>>,
                    used |-> {}, now |-> 1, rnd |-> 0, lateLeft |-> MaxLate],
                   c, MeshId[c]))

InitThird ==
    /\ webrtc = [c \in Clients |->
          IF c \in Linked
          THEN [InitWebrtc EXCEPT
                   !.socket = "connected", !._isConnected = TRUE, !.promise = "resolved",
                   !.localUserId = MeshId[c], !.localUsername = c,
                   !.cb = [NoCallbacks EXCEPT !.set = TRUE],
                   !.peers = Restrict(MeshPeers(MeshId[c]), 1..2),
                   !.dataChannels = Restrict(MeshChannels(MeshId[c]), 1..2)]
          ELSE Joining(c).w]
    /\ page = [c \in Clients |->
          IF c \in Linked
          THEN [InitPage EXCEPT
                   !.username = c, !.userId = MeshId[c],
                   !.connectionStatus = "connected", !.effStatus = "connecting",
                   !.onlineUsers = SubSeq(MeshUsers, 1, 2),
                   !.messages = <<[id |-> <<"system-join", 1, 0>>, senderId |-> SystemId,
                                   senderName |-> "System", text |-> "joined",
                                   timestamp |-> Stamp(1, 0)]>>]
          ELSE Joining(c).p]
    /\ relayUsers = [i \in 1..2 |->
          [socket |-> MeshTab[i], userId |-> i, username |-> MeshTab[i]]]
    /\ inbox = [c \in Clients |-> <<>>]
    /\ wire = <<>>
    /\ now = 1
    /\ nextId = 4
    /\ faults = 0
    /\ nsends = 0
    /\ nlate = 0
    /\ last = InitStep

NextThird ==
    \E c \in Clients :
        \/ SocketConnect(c)
        \/ RelayEvent(c)
        \/ Settle(c)

SpecThird == InitThird /\ [][NextThird]_vars

\* The same, with an engine that can run short of connections; only the
\* joining tab's operations settle.
NextQuota ==
    \/ \E c \in Clients :
          \/ SocketConnect(c)
          \/ RelayEvent(c)
          \/ RosterExhausted(c)
    \/ \E c \in Clients \ Linked : Settle(c)

SpecQuota == InitThird /\ [][NextQuota]_vars

\* ------------------------------------------------------------------ one tab in a session, another joining
\* Tab b has joined as user 3 and is alone in the session: it has handled the
\* roster the relay sent for its own join.  Tab a shows the login screen.
HostId == 3

InitHost ==
    /\ webrtc = [c \in Clients |->
          IF c = "b"
          THEN [InitWebrtc EXCEPT
                   !.socket = "connected", !._isConnected = TRUE, !.promise = "resolved",
                   !.localUserId = HostId, !.localUsername = c,
                   !.cb = [NoCallbacks EXCEPT !.set = TRUE]]
          ELSE InitWebrtc]
    /\ page = [c \in Clients |->
          IF c = "b"
          THEN [InitPage EXCEPT
                   !.username = c, !.userId = HostId,
                   !.connectionStatus = "connected", !.effStatus = "connecting",
                   !.onlineUsers = <<[id |-> HostId, name |-> c]>>,
                   !.messages = <<[id |-> <<"system-join", 1, 0>>, senderId |-> SystemId,
                                   senderName |-> "System", text |-> "joined",
                                   timestamp |-> Stamp(1, 0)]>>]
          ELSE InitPage]
    /\ relayUsers = <<[socket |-> "b", userId |-> HostId, username |-> "b"]>>
    /\ inbox = [c \in Clients |-> <<>>]
    /\ wire = <<>>
    /\ now = 1
    /\ nextId = 1
    /\ faults = 0
    /\ nsends = 0
    /\ nlate = 0
    /\ last = InitStep

NextHost ==
    \E c \in Pair :
        \/ HandleJoin(c)
        \/ SocketConnect(c)
        \/ HandleLeave(c)
        \/ EffectCleanup(c)
        \/ RelayEvent(c)
        \/ Settle(c)
        \/ LateClose(c)
        \/ PcLost(c)
        \/ PcConnected(c)
        \/ DcOpen(c)
        \/ DataChannel(c)
        \/ DcRemoteClose(c)
        \/ DcClose(c)

SpecHost == InitHost /\ [][NextHost]_vars

\* The host tab and a tab that joins, leaves and joins again while the
\* operations of its first session are in flight.
NextRetry ==
    \E c \in Pair :
        \/ HandleJoin(c)
        \/ SocketConnect(c)
        \/ HandleLeave(c)
        \/ EffectCleanup(c)
        \/ RelayEvent(c)
        \/ StaleReject(c)

SpecRetry == InitHost /\ [][NextRetry]_vars

\* ------------------------------------------------------------------ properties
\* the module state and the page of the tab that took the last step
ActorW == webrtc[last.c]
ActorP == page[last.c]

\* the entries of the tab's message list that are message x, and those that
\* have the id of x
Copies(x) == {i \in 1..Len(ActorP.messages) : ActorP.messages[i] = x}
WithIdOf(x) == {i \in 1..Len(ActorP.messages) : ActorP.messages[i].id = x.id}

\* C1: when the 'online-users' handler of a connected client returns, the
\* keys of peers are the ids of the roster it was given minus the local id,
\* whatever rosters it was given before.
C1_PeersFollowRoster ==
    (last.op = "online-users" /\ ActorW._isConnected)
        => DOMAIN ActorW.peers = Ids(last.arg) \ {ActorW.localUserId}

\* a connected client was given a roster with another user in it and holds
\* the link to that user
C1_Witness ==
    /\ last.op = "online-users"
    /\ ActorW._isConnected
    /\ Ids(last.arg) \ {ActorW.localUserId} # {}
    /\ DOMAIN ActorW.peers = Ids(last.arg) \ {ActorW.localUserId}

\* the steps a negotiation is made of: the relay's answer event and the
\* operations of the connection's chain
NegotiationSteps ==
    {"answer", "createOffer", "setLocalOffer", "setRemoteOffer", "createAnswer",
     "setLocalAnswer", "setRemoteAnswer"}

\* tab c holds an initiator link for user r, no answer to its own offer has
\* come, and it has been handed an offer of r
Glare(c, r) ==
    /\ r \in DOMAIN webrtc[c].peers
    /\ webrtc[c].peers[r].initiator
    /\ webrtc[c].peers[r].neg # "offerer"
    /\ \/ webrtc[c].peers[r].remote # 0
       \/ \E i \in 1..Len(webrtc[c].peers[r].ops) :
             webrtc[c].peers[r].ops[i].op = "setRemoteOffer"

\* C2: a client that takes a step of a negotiation in glare with a client
\* that is in the session still holds its link for that client's user when
\* the step is done.
C2_GlareKeepsLink ==
    [][\A c \in Clients, d \in Clients :
          (/\ c # d
           /\ last'.c = c
           /\ last'.op \in NegotiationSteps
           /\ Glare(c, last'.peerId)
           /\ webrtc[c]._isConnected
           /\ webrtc[d]._isConnected
           /\ webrtc[d].localUserId = last'.peerId)
              => last'.peerId \in DOMAIN webrtc'[c].peers]_vars

\* C3: with no fault of the environment, a message that a client broadcast
\* and that reaches a receiver's onmessage handler is in the receiver's
\* message list exactly once.
C3_SurfacedOnce ==
    (faults = 0 /\ last.op = "dcMessage" /\ last.arg.value.senderId # ActorW.localUserId)
        => Cardinality(Copies(last.arg.value)) = 1

\* C4: when a connection goes to 'failed' and the client holds other links,
\* the link is removed, an error is reported, the UI status stays
\* 'connected', the socket stays open and the other links stay as they are.
C4_FailedLinkOnly ==
    [][\A c \in Clients :
          (/\ last'.op = "failed"
           /\ last'.c = c
           /\ page[c].connectionStatus = "connected"
           /\ DOMAIN webrtc[c].peers \ {last'.peerId} # {})
              => /\ last'.peerId \notin DOMAIN webrtc'[c].peers
                 /\ last'.errs # <<>>
                 /\ page'[c].connectionStatus = "connected"
                 /\ SocketConnected(webrtc'[c])
                 /\ \A k \in DOMAIN webrtc[c].peers \ {last'.peerId} :
                       /\ k \in DOMAIN webrtc'[c].peers
                       /\ webrtc'[c].peers[k] = webrtc[c].peers[k]]_vars

C6_NoSelfLink ==
    \A c \in Clients :
        webrtc[c].localUserId # 0 =>
            /\ webrtc[c].localUserId \notin DOMAIN webrtc[c].peers
            /\ webrtc[c].localUserId \notin DOMAIN webrtc[c].dataChannels
            /\ \A isInitiator \in BOOLEAN :
                  /\ createPeerConnection(Ctx(c), webrtc[c].localUserId, isInitiator).threw
                  /\ createPeerConnection(Ctx(c), webrtc[c].localUserId, isInitiator).m.w
                        = webrtc[c]

\* a connected client was given a roster with itself in it and holds links
C6_Witness ==
    /\ last.op = "online-users"
    /\ ActorW._isConnected
    /\ ActorW.localUserId \in Ids(last.arg)
    /\ DOMAIN ActorW.peers # {}
    /\ DOMAIN ActorW.dataChannels # {}

\* the payload of the last step is a message in the name of the client that
\* received it
SelfEcho(step, localUserId) ==
    /\ step.op \in {"dcMessage", "dcForeign"}
    /\ step.arg.json
    /\ WellFormed(step.arg.value)
    /\ step.arg.value.senderId = localUserId

\* C7: a message whose senderId is the local user id is not handed to
\* onMessageReceived and leaves the UI message list as it is.
C7_NoSelfEcho ==
    [][\A c \in Clients :
          (last'.c = c /\ SelfEcho(last', webrtc[c].localUserId))
              => /\ "onMessageReceived" \notin Range(last'.calls)
                 /\ page'[c].messages = page[c].messages]_vars

\* a message in the client's own name reached its onmessage handler
C7_Witness == SelfEcho(last, ActorW.localUserId) /\ last.errs = <<>>

\* the last step handed a message to onMessageReceived
Received == last.op \in {"dcMessage", "dcForeign"} /\ "onMessageReceived" \in Range(last.calls)

\* C8: after a message is handed to the UI, the message list has exactly one
\* entry with its id, whether or not one with that id was handed over before.
C8_OneEntryPerId ==
    Received => Cardinality(WithIdOf(last.arg.value)) = 1

\* a message was handed to the UI whose id an earlier, different message had
C8_Witness ==
    /\ Received
    /\ WithIdOf(last.arg.value) # Copies(last.arg.value)

\* C9: a broadcast that finds no open channel reports it: it does not end
\* like a broadcast that delivered, without a word to the caller.
C9_ZeroOpenReported ==
    (/\ last.op = "handleSendMessage"
     /\ NotConnected \notin Range(last.calls)
     /\ last.sends = <<>>) => last.errs # <<>>

\* the channels of w that are open
OpenChannels(w) == {k \in DOMAIN w.dataChannels : w.dataChannels[k].readyState = "open"}

\* the dc.send calls that context m made on the channel to k
SendsTo(m, k) == {i \in 1..Len(m.sends) : m.sends[i].peerId = k}

ChainOps(pc) ==
    Cardinality({i \in 1..Len(pc.ops) : pc.ops[i].op \in {"createOffer", "setLocalOffer"}})

\* the offers among what a step emitted
Offers(out) == {i \in 1..Len(out) : out[i].ev = "offer"}

\* C11: a roster that reaches a connected tab gives every remote id in it that
\* has no link exactly one new connection in the initiator role, with its
\* data channel stored and the offer chain started, and leaves the links of
\* the other ids in it as they are, emitting no offer itself.  An offer chain
\* is only ever started for a connection the roster handler has just created,
\* and when it emits, it emits one offer, addressed to the link's id and
\* carrying the local name, and nothing of it is left to run: no link is given
\* a second connection and no link a second offer.
C11_OneLinkOneOffer ==
    [][LET w == webrtc[last'.c]
           v == webrtc'[last'.c]
           made == IF last'.op = "online-users" /\ w._isConnected
                   THEN {k \in Ids(last'.arg) \ {w.localUserId} :
                            k \notin DOMAIN w.peers /\ k \notin DOMAIN w.dataChannels}
                   ELSE {}
       IN /\ \A k \in made :
                /\ k \in DOMAIN v.peers /\ k \in DOMAIN v.dataChannels
                /\ v.peers[k].initiator
                /\ v.peers[k].ops = <<[op |-> "createOffer", sdp |-> 0]>>
                /\ v.dataChannels[k].pc = v.peers[k].id
                /\ \A j \in DOMAIN w.peers : w.peers[j].id # v.peers[k].id
          /\ last'.op = "online-users" =>
                /\ Offers(last'.out) = {}
                /\ \A k \in (Ids(last'.arg) \cap DOMAIN w.peers) :
                      k \in DOMAIN v.peers /\ v.peers[k] = w.peers[k]
          /\ \A k \in DOMAIN v.peers \ made :
                ChainOps(v.peers[k]) > 0 =>
                    /\ k \in DOMAIN w.peers
                    /\ w.peers[k].id = v.peers[k].id
                    /\ ChainOps(w.peers[k]) = 1
                    /\ ChainOps(v.peers[k]) = 1
          /\ Offers(last'.out) # {} =>
                /\ last'.op = "setLocalOffer"
                /\ Len(last'.out) = 1
                /\ last'.out[1].targetId = last'.peerId
                /\ last'.out[1].username = w.localUsername
                /\ last'.peerId \in DOMAIN v.peers
                /\ ChainOps(v.peers[last'.peerId]) = 0]_vars

\* a roster with a user that has a link and one that has none was handled:
\* the one has its connection as it was, the other a new one
C11_Witness ==
    /\ last.op = "online-users"
    /\ \E k, j \in DOMAIN ActorW.peers :
          /\ {k, j} \subseteq Ids(last.arg)
          /\ ActorW.peers[k].ops = <<[op |-> "createOffer", sdp |-> 0]>>
          /\ ActorW.peers[j].connectionState = "connected"

\* the answers among what a step emitted
Answers(out) == {i \in 1..Len(out) : out[i].ev = "answer"}

\* C12: an offer from s that reaches a connected tab with no link for s gives
\* s exactly one new connection in the responder role: no data channel is
\* stored for it, no offer chain is started and nothing is emitted, and the
\* offer is the one operation it has to run.  When the local answer has been
\* set on a connection, that step emits one answer, whose targetId is the
\* link's id, and no other step emits an answer.
C12_ResponderAnswersOnce ==
    [][LET w == webrtc[last'.c]
           v == webrtc'[last'.c]
           s == last'.peerId
       IN /\ (/\ last'.op = "offer"
              /\ w._isConnected
              /\ s # w.localUserId
              /\ s \notin DOMAIN w.peers
              /\ s \notin DOMAIN w.dataChannels)
             => /\ DOMAIN v.peers = DOMAIN w.peers \cup {s}
                /\ ~v.peers[s].initiator
                /\ Len(v.peers[s].ops) = 1
                /\ v.peers[s].ops[1].op = "setRemoteOffer"
                /\ \A j \in DOMAIN w.peers : w.peers[j].id # v.peers[s].id
                /\ v.dataChannels = w.dataChannels
                /\ last'.out = <<>>
          /\ (/\ last'.op = "setLocalAnswer"
              /\ s \in DOMAIN v.peers
              /\ v.peers[s].signalingState = "stable")
             => /\ Len(last'.out) = 1
                /\ last'.out[1].ev = "answer"
                /\ last'.out[1].targetId = s
          /\ Answers(last'.out) # {} =>
                /\ last'.op = "setLocalAnswer"
                /\ w.peers[s].signalingState = "have-remote-offer"]_vars

\* a connection that was created for an offer, with no link there before, has
\* had its answer set and sent
C12_Witness ==
    /\ last.op = "setLocalAnswer"
    /\ Answers(last.out) # {}
    /\ last.peerId \in DOMAIN ActorW.peers
    /\ ~ActorW.peers[last.peerId].initiator
    /\ last.peerId \notin DOMAIN ActorW.dataChannels

\* the kind and the user of the notices a step of tab c added to its messages
NoticesOf(before, after) ==
    {<<after[i].id[1], after[i].id[3]>> : i \in (Len(before) + 1)..Len(after)}

\* C13: a roster that reaches a connected tab adds to the tab's messages a
\* 'joined' notice for exactly the ids that are in the new roster and not in
\* the previous one, and a 'left' notice for exactly the ids that are in the
\* previous roster and not in the new one, the local id excepted in both.
C13_RosterDelta ==
    [][(last'.op = "online-users" /\ webrtc[last'.c]._isConnected) =>
          LET prev == Ids(page[last'.c].onlineUsers)
              new == Ids(last'.arg)
              self == page[last'.c].userId
          IN /\ Len(page'[last'.c].messages) >= Len(page[last'.c].messages)
             /\ NoticesOf(page[last'.c].messages, page'[last'.c].messages)
                   = {<<"system-join", k>> : k \in (new \ prev) \ {self}}
                     \cup {<<"system-left", k>> : k \in (prev \ new) \ {self}}]_vars

\* C14: handleSendMessage called in a tab whose status is not 'connected', or
\* that has no user id or no user name, is rejected with the 'Not connected.'
\* notice and nothing else: the messages of the tab are as they were,
\* broadcastMessage is not called (no send, no error reported through
\* onError), nothing is emitted and the links are as they were.
C14_InactiveSendRejected ==
    [][(/\ last'.op = "handleSendMessage"
        /\ \/ page[last'.c].connectionStatus # "connected"
           \/ page[last'.c].userId = 0
           \/ page[last'.c].username = "")
       => /\ last'.calls = <<NotConnected>>
          /\ page'[last'.c] = page[last'.c]
          /\ last'.sends = <<>>
          /\ last'.errs = <<>>
          /\ last'.out = <<>>
          /\ webrtc'[last'.c].peers = webrtc[last'.c].peers
          /\ webrtc'[last'.c].dataChannels = webrtc[last'.c].dataChannels
          /\ wire' = wire]_vars

\* a text was submitted in a tab whose session had ended, and was rejected
C14_Witness ==
    /\ last.op = "handleSendMessage"
    /\ last.calls = <<NotConnected>>
    /\ ActorP.connectionStatus # "connected"
    /\ ActorP.userId # 0

\* no link, no socket, not connected
Idle(w) ==
    /\ w.peers = NoFn
    /\ w.dataChannels = NoFn
    /\ w.socket = "null"
    /\ ~w._isConnected

\* C15: in every state a tab can be in, disconnect() leaves no link, no
\* channel, no socket and _isConnected false, and a second disconnect() changes
\* nothing and calls nothing; handleLeave leaves the same and the status
\* 'disconnected'; and so has every leave that was made.
C15_LeaveEndsIdle ==
    /\ \A c \in Clients :
          /\ Idle(disconnect(Ctx(c)).w)
          /\ disconnect(disconnect(Ctx(c))) = disconnect(Ctx(c))
          /\ Idle(handleLeave(Ctx(c)).w)
          /\ handleLeave(Ctx(c)).p.connectionStatus = "disconnected"
          /\ disconnect(handleLeave(Ctx(c))) = handleLeave(Ctx(c))
    /\ last.op = "handleLeave" =>
          /\ Idle(ActorW)
          /\ ActorP.connectionStatus = "disconnected"

\* the user left a session that was connected: the UI was notified once
C15_Witness ==
    /\ last.op = "handleLeave"
    /\ last.calls = <<"onDisconnected">>
    /\ Idle(ActorW)
    /\ ActorP.connectionStatus = "disconnected"

C17_UnexpectedSignalDropped ==
    [][LET w == webrtc[last'.c]
           s == last'.peerId
       IN (/\ last'.op \in {"answer", "ice-candidate"}
           /\ w._isConnected
           /\ s # w.localUserId
           /\ \/ s \notin DOMAIN w.peers
              \/ last'.op = "answer" /\ w.peers[s].signalingState # "have-local-offer")
          => /\ webrtc'[last'.c].peers = w.peers
             /\ webrtc'[last'.c].dataChannels = w.dataChannels
             /\ last'.errs = <<>>
             /\ page'[last'.c] = page[last'.c]]_vars

\* C18: an offer, an answer or a candidate whose senderId is the local user id
\* is ignored: the links and channels of the tab and its page are as they
\* were, nothing is emitted and no callback is invoked.
C18_OwnSignalIgnored ==
    [][(/\ last'.op \in {"offer", "answer", "ice-candidate"}
        /\ last'.peerId = webrtc[last'.c].localUserId)
       => /\ webrtc'[last'.c].peers = webrtc[last'.c].peers
          /\ webrtc'[last'.c].dataChannels = webrtc[last'.c].dataChannels
          /\ page'[last'.c] = page[last'.c]
          /\ wire' = wire
          /\ last'.out = <<>>
          /\ last'.errs = <<>>
          /\ last'.calls = <<>>
          /\ last'.sends = <<>>]_vars

C18_Witness ==
    /\ last.op = "offer"
    /\ webrtc[last.c]._isConnected
    /\ last.peerId = webrtc[last.c].localUserId
    /\ DOMAIN webrtc[last.c].peers # {}

LostStatesOfPc == {"disconnected", "failed", "closed"}

\* C19: a link whose connectionState becomes disconnected, failed or closed
\* is torn down in the handler of that change: no entry of peers is ever in
\* one of these states, the handler of the change, run for any link of any
\* reachable state, returns with neither a peers nor a dataChannels entry for
\* the remote id, so does every step that handles a loss, and every entry that
\* a step puts into peers is a new connection (state new, no description, an
\* identity that no link has).
C19_LostLinkTornDown ==
    /\ [](\A c \in Clients : \A peerId \in DOMAIN webrtc[c].peers :
             webrtc[c].peers[peerId].connectionState \notin LostStatesOfPc)
    /\ [](\A c \in Clients : \A peerId \in DOMAIN webrtc[c].peers :
             \A state \in LostStatesOfPc :
                /\ peerId \notin DOMAIN OnConnectionStateChange(Ctx(c), peerId, state).w.peers
                /\ peerId \notin
                      DOMAIN OnConnectionStateChange(Ctx(c), peerId, state).w.dataChannels)
    /\ [][last'.op \in LostStatesOfPc
          => /\ last'.peerId \notin DOMAIN webrtc'[last'.c].peers
             /\ last'.peerId \notin DOMAIN webrtc'[last'.c].dataChannels]_vars
    /\ [][\A c \in Clients : \A peerId \in DOMAIN webrtc'[c].peers :
             peerId \notin DOMAIN webrtc[c].peers
             => /\ webrtc'[c].peers[peerId].connectionState = "new"
                /\ webrtc'[c].peers[peerId].signalingState = "stable"
                /\ webrtc'[c].peers[peerId].remote = 0
                /\ webrtc'[c].peers[peerId].id \notin
                      UNION {{webrtc[d].peers[q].id : q \in DOMAIN webrtc[d].peers} :
                                d \in Clients}]_vars

C19_Witness ==
    /\ last.op = "disconnected"
    /\ last.errs # <<>>
    /\ last.peerId \notin DOMAIN webrtc[last.c].peers
    /\ last.peerId \notin DOMAIN webrtc[last.c].dataChannels

\* C20: a connect failure or an unexpected disconnect of the relay socket is
\* reported through onError and leaves the tab with no link, no channel and no
\* socket and the page in status error; a Join pressed on the settled error
\* screen starts a connection attempt; and when the socket of an attempt that
\* was started from the error screen connects, the tab is connected.
C20_TransportErrorRetry ==
    [][LET c == last'.c
       IN /\ (last'.op \in {"connect_error", "disconnect"} /\ last'.errs # <<>>)
             => /\ Idle(webrtc'[c])
                /\ page'[c].connectionStatus = "error"
                /\ ~page'[c].isConnecting
          /\ (/\ last'.op = "handleJoin"
              /\ page[c].connectionStatus = "error"
              /\ page[c].effStatus = "error")
             => /\ webrtc'[c].socket = "connecting"
                /\ page'[c].connectionStatus = "connecting"
          /\ (/\ last'.op = "connect"
              /\ webrtc[c].cb.connectionStatus = "error")
             => /\ webrtc'[c]._isConnected
                /\ webrtc'[c].socket = "connected"
                /\ page'[c].connectionStatus = "connected"]_vars

\* the errors that the catch blocks of the negotiation report
NegotiationErrors == {"chain", "offer", "answer"}

\* C21: a step in which a negotiation of one link fails (the catch block of
\* the offer listener, of the answer listener or of the offer chain runs)
\* leaves the peers and dataChannels entries of every other remote id, the
\* socket and _isConnected as they were, and the page in the status it had.
C21_NegotiationErrorLocal ==
    [][LET c == last'.c
       IN (/\ last'.errs # <<>>
           /\ Range(last'.errs) \subseteq NegotiationErrors
           /\ webrtc[c]._isConnected)
          => /\ \A q \in DOMAIN webrtc[c].peers \ {last'.peerId} :
                   /\ q \in DOMAIN webrtc'[c].peers
                   /\ webrtc'[c].peers[q] = webrtc[c].peers[q]
             /\ \A q \in DOMAIN webrtc[c].dataChannels \ {last'.peerId} :
                   /\ q \in DOMAIN webrtc'[c].dataChannels
                   /\ webrtc'[c].dataChannels[q] = webrtc[c].dataChannels[q]
             /\ webrtc'[c].socket = webrtc[c].socket
             /\ webrtc'[c]._isConnected
             /\ page'[c].connectionStatus = page[c].connectionStatus]_vars

\* a payload that is not a string, is not JSON, or lacks a field of a message
Malformed(data) ==
    \/ ~IsString(data)
    \/ ~data.json
    \/ ~WellFormed(data.value)

\* C22: a step in which dc.onmessage receives a malformed payload does not
\* invoke onMessageReceived, leaves the receiving link in peers and
\* dataChannels, and leaves the page in the status it had.
C22_MalformedDropped ==
    [][LET c == last'.c
       IN (/\ last'.op \in {"dcMessage", "dcForeign"}
           /\ Malformed(last'.arg))
          => /\ "onMessageReceived" \notin Range(last'.calls)
             /\ last'.peerId \in DOMAIN webrtc'[c].peers
             /\ last'.peerId \in DOMAIN webrtc'[c].dataChannels
             /\ page'[c].connectionStatus = page[c].connectionStatus]_vars

\* the events of the socket.emit calls of the module (src/lib/webrtc.ts 131,
\* 229, 471, 475, 557)
SignalEvents == {"join", "offer", "answer", "ice-candidate"}

\* what a step emitted on the socket; closing the socket is not an emit
Emitted(out) == SelectSeq(out, LAMBDA e : e.ev # "disconnect")

\* C23: every event a step emits on the socket is a join, an offer, an answer
\* or an ice-candidate; a step that sends a chat message emits nothing on the
\* socket and has the relay deliver nothing but a roster (when the sender's
\* socket closed in that step), and broadcastMessage
\* applied in any reachable state emits nothing; onMessageReceived is invoked
\* only by the message handler of a data channel.
C23_ChatNotRelayed ==
    /\ [][/\ \A i \in 1..Len(last'.out) :
                last'.out[i].ev \in SignalEvents \cup {"disconnect"}
          /\ last'.op = "handleSendMessage"
             => /\ Emitted(last'.out) = <<>>
                /\ \A c \in Clients : \A i \in 1..Len(inbox'[c]) :
                      inbox'[c][i].t # "online-users"
                      => i <= Len(inbox[c]) /\ inbox[c][i] = inbox'[c][i]
          /\ "onMessageReceived" \in Range(last'.calls)
             => last'.op \in {"dcMessage", "dcForeign"}]_vars
    /\ [](\A c \in Clients : broadcastMessage(Ctx(c), "x", {}).out = <<>>)

C23_Witness ==
    /\ last.op = "dcMessage"
    /\ "onMessageReceived" \in Range(last.calls)
    /\ \E c \in Clients : inbox[c] # <<>>

\* C24: the message list of every page is sorted by non-decreasing timestamp
C24_SortedByTimestamp ==
    \A c \in Clients :
        \A i \in 1..Len(page[c].messages) : \A j \in i..Len(page[c].messages) :
            page[c].messages[i].timestamp <= page[c].messages[j].timestamp

\* C25: a send step that sends on a channel gives its message an id that no message of the sender's
\* list has, and a payload that a sender broadcast reaches a receiver whose
\* list holds no message with that id (so the receiver keeps it).
C25_DistinctIds ==
    [][LET c == last'.c
           n == Len(page'[c].messages)
       IN /\ (/\ last'.op = "handleSendMessage"
              /\ last'.sends # <<>>
              /\ n = Len(page[c].messages) + 1)
             => ~HasId(page[c].messages, page'[c].messages[n].id)
          /\ (/\ last'.op = "dcMessage"
              /\ last'.arg.value.senderId # webrtc[c].localUserId)
             => ~HasId(page[c].messages, last'.arg.value.id)]_vars

\* C26: the role of a link does not change while the link exists; a step that
\* emits an offer to a remote id does so for a link created as initiator and
\* a step that emits an answer does so for a link created as responder; and
\* a roster step starts no operation on a link that already exists.
C26_RoleFixed ==
    [][LET c == last'.c
           w == webrtc[c]
       IN /\ \A q \in DOMAIN w.peers \cap DOMAIN webrtc'[c].peers :
                webrtc'[c].peers[q].id = w.peers[q].id
                => webrtc'[c].peers[q].initiator = w.peers[q].initiator
          /\ \A i \in 1..Len(last'.out) :
                /\ last'.out[i].ev = "offer"
                   => /\ last'.out[i].targetId \in DOMAIN w.peers
                      /\ w.peers[last'.out[i].targetId].initiator
                /\ last'.out[i].ev = "answer"
                   => /\ last'.out[i].targetId \in DOMAIN w.peers
                      /\ ~w.peers[last'.out[i].targetId].initiator
          /\ last'.op = "online-users"
             => \A q \in DOMAIN w.peers \cap DOMAIN webrtc'[c].peers :
                   webrtc'[c].peers[q].ops = w.peers[q].ops]_vars

\* C27: a step in which a link produces a candidate, or the end of its
\* candidates, emits exactly one ice-candidate event addressed to the link's
\* remote id; and a step that processes an inbound candidate (the listener,
\* or the settling of the addIceCandidate it awaits) removes no entry from
\* peers or dataChannels.
C27_CandidatesRelayedAndHarmless ==
    [][LET c == last'.c
       IN /\ last'.op = "icecandidate"
             => /\ Len(Emitted(last'.out)) = 1
                /\ Emitted(last'.out)[1].ev = "ice-candidate"
                /\ Emitted(last'.out)[1].targetId = last'.peerId
          /\ last'.op \in {"ice-candidate", "addIceCandidate"}
             => /\ DOMAIN webrtc[c].peers \subseteq DOMAIN webrtc'[c].peers
                /\ DOMAIN webrtc[c].dataChannels \subseteq DOMAIN webrtc'[c].dataChannels]_vars

\* the one join event of a tab that connected as user userId named username
JoinOf(userId, username) ==
    <<[ev |-> "join", targetId |-> 0, sdp |-> 0, userId |-> userId, username |-> username]>>

\* C28: whenever a socket is connecting, its 'connect' handler returns with
\* _isConnected set, exactly one emitted event, the join with the local id
\* and name, the page connected by onConnected, and no link; a tab that is
\* connected with no link sends a message without an error; and every step
\* that handles 'connect' emits that one join.
C28_ConnectConfirmsRelay ==
    /\ [](\A c \in Clients :
             webrtc[c].socket = "connecting"
             => /\ OnConnect(Ctx(c)).w._isConnected
                /\ isConnected(OnConnect(Ctx(c)).w)
                /\ OnConnect(Ctx(c)).out
                      = JoinOf(webrtc[c].localUserId, webrtc[c].localUsername)
                /\ webrtc[c].localUserId # 0
                /\ OnConnect(Ctx(c)).p.connectionStatus = "connected"
                /\ ~OnConnect(Ctx(c)).p.isConnecting
                /\ OnConnect(Ctx(c)).w.peers = NoFn
                /\ OnConnect(Ctx(c)).w.dataChannels = NoFn
                /\ OnConnect(Ctx(c)).errs = <<>>)
    /\ [](\A c \in Clients :
             (isConnected(webrtc[c]) /\ webrtc[c].dataChannels = NoFn)
             => broadcastMessage(Ctx(c), "x", {}).errs = <<>>)
    /\ [][last'.op = "connect"
          => Emitted(last'.out)
                = JoinOf(webrtc[last'.c].localUserId, webrtc[last'.c].localUsername)]_vars

C28_Witness ==
    /\ last.op = "connect"
    /\ isConnected(webrtc[last.c])
    /\ page[last.c].connectionStatus = "connected"
    /\ webrtc[last.c].peers = NoFn
    /\ \E i \in 1..Len(relayUsers) : relayUsers[i].userId = webrtc[last.c].localUserId

\* every user id, and none
PeerIds == 0..3

\* C29: in every reachable state, closePeerConnection for a peer id that has
\* no entry returns the context it was given; for any peer id it reports no
\* error, ends with no entry for the id, and a second call returns what the
\* first returned; cleanup called on what cleanup returned returns the same.
C29_CloseIdempotent ==
    \A c \in Clients :
        /\ \A peerId \in PeerIds :
              /\ (peerId \notin DOMAIN webrtc[c].peers
                  /\ peerId \notin DOMAIN webrtc[c].dataChannels)
                 => closePeerConnection(Ctx(c), peerId) = Ctx(c)
              /\ closePeerConnection(Ctx(c), peerId).errs = <<>>
              /\ closePeerConnection(Ctx(c), peerId).p = page[c]
              /\ peerId \notin DOMAIN closePeerConnection(Ctx(c), peerId).w.peers
              /\ peerId \notin DOMAIN closePeerConnection(Ctx(c), peerId).w.dataChannels
              /\ closePeerConnection(closePeerConnection(Ctx(c), peerId), peerId)
                    = closePeerConnection(Ctx(c), peerId)
        /\ cleanup(Ctx(c)).errs = <<>>
        /\ cleanup(cleanup(Ctx(c))) = cleanup(Ctx(c))

\* a link was closed by its state-change handler and closed again by the
\* cleanup() of the disconnect() that the page called in the same step
C29_Witness ==
    /\ last.op \in {"failed", "disconnected"}
    /\ last.errs # <<>>
    /\ Idle(webrtc[last.c])
    /\ \E c \in Clients : DOMAIN webrtc[c].dataChannels # {}

\* the relay as a step finds it, the sockets it can reach, and the user id
\* a socket is registered under (none if it has not joined)
RelayNow == [users |-> relayUsers, inbox |-> inbox]
Reachable == {s \in Clients : SocketConnected(webrtc[s])}
UserIdOf(users, c) ==
    IF getUserInfo(users, c) = {} THEN 0
    ELSE (CHOOSE x \in getUserInfo(users, c) : TRUE).userId

\* the signalling event ev for targetId with payload 1, as a socket emits it
SignalTo(ev, targetId) ==
    [ev |-> ev, targetId |-> targetId, sdp |-> 1, userId |-> 0, username |-> ""]

\* relay r2 is relay r after it forwarded event e of socket c as claimed
ForwardedToTargetOnly(r, r2, c, e) ==
    /\ r2.users = r.users
    /\ \A s \in Clients :
          IF s \in findSocketByUserId(r.users, e.targetId) /\ s \in Reachable
          THEN r2.inbox[s] = Append(r.inbox[s],
                                    RelayMsg(e.ev, <<>>, UserIdOf(r.users, c), e.sdp))
          ELSE r2.inbox[s] = r.inbox[s]

\* C30: in every reachable state of the relay, an offer, an answer or a
\* candidate from any socket for any target id is appended, with the
\* registered user id of the sending socket as senderId, to the inbox of the
\* socket registered under the target id and to no other, and changes
\* nothing when no socket is registered under that id; and every signalling
\* event that a step of a tab emits is forwarded so.
C30_RelayToTargetOnly ==
    /\ [](\A c \in Clients : \A ev \in SignalEvents \ {"join"} : \A targetId \in 1..3 :
             ForwardedToTargetOnly(RelayNow,
                                   RelayOn(RelayNow, c, SignalTo(ev, targetId), Reachable),
                                   c, SignalTo(ev, targetId)))
    /\ [][(/\ Len(last'.out) = 1
           /\ last'.out[1].ev \in SignalEvents \ {"join"}
           /\ last'.op # "online-users")
          => \A s \in Clients \ {last'.c} :
                IF s \in findSocketByUserId(relayUsers, last'.out[1].targetId)
                   /\ SocketConnected(webrtc[s])
                THEN inbox'[s] = Append(inbox[s],
                                        RelayMsg(last'.out[1].ev, <<>>,
                                                 UserIdOf(relayUsers, last'.c),
                                                 last'.out[1].sdp))
                ELSE inbox'[s] = inbox[s]]_vars

\* an answer has just been put into the inbox of the tab it was addressed to
C30_Witness ==
    /\ Len(last.out) = 1
    /\ last.out[1].ev = "answer"
    /\ \E s \in Clients \ {last.c} :
          /\ s \in findSocketByUserId(relayUsers, last.out[1].targetId)
          /\ inbox[s] # <<>>
          /\ inbox[s][Len(inbox[s])].t = "answer"
          /\ inbox[s][Len(inbox[s])].senderId = webrtc[last.c].localUserId

\* C31: when the 'online-users' handler of a connected tab has run, the keys
\* of peers are the other users of the roster (every creation and teardown
\* applied) or peers and dataChannels are as they were (none applied).
C31_RosterAtomic ==
    [][LET c == last'.c
       IN (/\ last'.op = "online-users"
           /\ webrtc[c]._isConnected
           /\ webrtc'[c]._isConnected)
          => \/ DOMAIN webrtc'[c].peers = Ids(last'.arg) \ {webrtc[c].localUserId}
             \/ /\ webrtc'[c].peers = webrtc[c].peers
                /\ webrtc'[c].dataChannels = webrtc[c].dataChannels]_vars

\* the events a socket's listeners can be handed: a roster of the first
\* n users, and a signal of each kind from each sender
InboundEvents ==
    {RelayMsg("online-users", SubSeq(MeshUsers, 1, n), 0, 0) : n \in 0..3}
    \cup {RelayMsg(t, <<>>, senderId, 1) :
             t \in {"offer", "answer", "ice-candidate"}, senderId \in PeerIds}

\* C32: in every reachable state, a tab whose _isConnected is false handles
\* any roster, offer, answer or candidate by doing nothing: the listener
\* returns the context it was given (peers, dataChannels and the page as
\* they were, nothing emitted, nothing reported, no callback invoked).
C32_IgnoredWhileNotConnected ==
    \A c \in Clients : \A e \in InboundEvents :
        ~webrtc[c]._isConnected => OnRelayEvent(Ctx(c), e) = Ctx(c)

\* a tab that is no longer connected, with callbacks set and an identity,
\* while another tab is in the session
C32_Witness ==
    \E c \in Clients :
        /\ ~webrtc[c]._isConnected
        /\ webrtc[c].cb.set
        /\ webrtc[c].localUserId # 0
        /\ \E d \in Clients \ {c} : webrtc[d]._isConnected /\ DOMAIN webrtc[d].peers # {}

\* the callbacks of a render in which Join can be clicked (page.tsx 247)
RenderCallbacks ==
    [set : {TRUE}, connectionStatus : {"disconnected", "error"},
     userId : 0..MaxIds, username : {""}]

\* C33: in every reachable state, connect() called by a tab whose
\* _isConnected is true, with any user id, name and callbacks, resolves at
\* once and returns the context it was given: the local user id and name,
\* the registered callbacks, the socket, peers and dataChannels are
\* unchanged, nothing is emitted and no callback is invoked.
C33_ConnectWhileConnected ==
    \A c \in Clients : \A userId \in 1..MaxIds : \A username \in Clients :
        \A callbacks \in RenderCallbacks :
            webrtc[c]._isConnected
                => connect(Ctx(c), userId, username, callbacks)
                       = [m |-> Ctx(c), result |-> "resolved"]

\* a connected tab with a link and an open channel, for which a call with
\* another user id would have changed the identity
C33_Witness ==
    \E c \in Clients : \E userId \in 1..MaxIds :
        /\ webrtc[c]._isConnected
        /\ webrtc[c].localUserId # userId
        /\ DOMAIN webrtc[c].dataChannels # {}

\* the reasons socket.io gives with 'disconnect'
Reasons == {"io client disconnect", "io server disconnect", "transport close",
            "ping timeout"}

\* how often a handler invoked onDisconnected
Notified(calls) == Len(SelectSeq(calls, LAMBDA x : x = "onDisconnected"))

\* the tab's session ends in this step
SessionEnds(c) == webrtc[c]._isConnected /\ ~webrtc'[c]._isConnected

\* what can end a session in context m, or follow its end: disconnect() at
\* any time; the socket's 'disconnect' and 'error' events while the socket
\* has its listeners
Enders(m) ==
    {disconnect(m)}
    \cup (IF m.w.socket = "null" THEN {}
          ELSE {OnSocketError(m)}
               \cup {OnDisconnectFor(Dropped(m), reason) :
                        reason \in Reasons \ {"io client disconnect"}})

\* C34: in every reachable state the 'disconnect' listener reports an error
\* exactly when the tab was connected and the reason is not 'io client
\* disconnect', and disconnect() reports none; whichever of disconnect(), the
\* 'disconnect' event and the 'error' event ends the session of a connected
\* tab, and whichever of them follow, onDisconnected has been invoked once
\* after one, two and three of them.  In every step, a leave or an effect
\* cleanup reports no error, and a handler invokes onDisconnected at most
\* once and only in a step that ends the tab's session; a session that ends
\* without the handler's invocation was ended by the disconnect() of the
\* page's effect cleanup.
C34_DisconnectNotifiedOnce ==
    /\ [](\A c \in Clients :
            /\ \A reason \in Reasons :
                  (OnDisconnectFor(Dropped(Ctx(c)), reason).errs # <<>>)
                      <=> (webrtc[c]._isConnected /\ reason # "io client disconnect")
            /\ OnDisconnectFor(Dropped(Ctx(c)), "transport close")
                  = OnDisconnect(Dropped(Ctx(c)))
            /\ disconnect(Ctx(c)).errs = <<>>
            /\ webrtc[c]._isConnected =>
                  \A m1 \in Enders(Ctx(c)) :
                      /\ Notified(m1.calls) = 1
                      /\ ~m1.w._isConnected
                      /\ \A m2 \in Enders(m1) :
                            /\ Notified(m2.calls) = 1
                            /\ \A m3 \in Enders(m2) : Notified(m3.calls) = 1)
    /\ [][/\ last'.op \in {"handleLeave", "effectCleanup"} => last'.errs = <<>>
          /\ Notified(last'.calls) <= 1
          /\ Notified(last'.calls) = 1 => SessionEnds(last'.c)
          /\ SessionEnds(last'.c) /\ Notified(last'.calls) = 0
                => /\ page'[last'.c].effStatus # page[last'.c].effStatus
                   /\ page[last'.c].effStatus # "disconnected"]_vars

\* a socket error ended a session: one error, one onDisconnected
C34_Witness ==
    /\ last.op = "error"
    /\ last.calls = <<"onDisconnected">>
    /\ last.errs # <<>>
    /\ ~webrtc[last.c]._isConnected

\* the other ends of a session: the relay connection lost, a leave
C34_WitnessDrop == last.op = "disconnect" /\ last.calls = <<"onDisconnected">>
C34_WitnessLeave == last.op = "handleLeave" /\ last.calls = <<"onDisconnected">>

\* the tab holds a connection for peerId that is neither closed nor failed
LivePc(w, peerId) ==
    /\ peerId \in DOMAIN w.peers
    /\ w.peers[peerId].connectionState \notin {"closed", "failed"}

\* C35: in every reachable state, dc.onclose run for any peer id leaves no
\* channel for it, and no connection either if the tab held one that was
\* neither closed nor failed; and after every step in which a close event
\* reached dc.onclose while such a connection was held, the peer id is in
\* neither dataChannels nor peers.
C35_ChannelCloseTearsLinkDown ==
    /\ [](\A c \in Clients : \A peerId \in PeerIds :
            /\ peerId \notin DOMAIN OnDcClose(Ctx(c), peerId).w.dataChannels
            /\ LivePc(webrtc[c], peerId)
                  => peerId \notin DOMAIN OnDcClose(Ctx(c), peerId).w.peers)
    /\ [][last'.op \in {"dcClose", "lateClose"} /\ LivePc(webrtc[last'.c], last'.peerId)
            => /\ last'.peerId \notin DOMAIN webrtc'[last'.c].dataChannels
               /\ last'.peerId \notin DOMAIN webrtc'[last'.c].peers]_vars

\* a close event tore a link down in a tab that stays in the session with
\* another link
C35_Witness ==
    /\ last.op = "dcClose"
    /\ webrtc[last.c]._isConnected
    /\ last.peerId \notin DOMAIN webrtc[last.c].peers
    /\ last.peerId \notin DOMAIN webrtc[last.c].dataChannels
    /\ DOMAIN webrtc[last.c].peers # {}

\* C36: in every reachable state, every peer id with an entry in
\* dataChannels has an entry in peers.
C36_ChannelsHavePeers ==
    \A c \in Clients : DOMAIN webrtc[c].dataChannels \subseteq DOMAIN webrtc[c].peers

\* a tab lost one link, by a loss of the transport or by the close of the
\* channel, and still holds a channel of another link
C36_Witness ==
    /\ last.op \in {"failed", "disconnected", "dcClose"}
    /\ last.peerId \notin DOMAIN webrtc[last.c].peers
    /\ DOMAIN webrtc[last.c].dataChannels # {}

\* C37: the promise returned by connect() is eventually resolved or
\* rejected.
C37_PromiseSettled ==
    \A c \in Pair :
        (webrtc[c].promise = "pending") ~> (webrtc[c].promise \in {"resolved", "rejected"})

\* the tab joined from the error screen: the callbacks it registered are
\* those of the render that showed the error
Retrying(c) ==
    /\ page[c].connectionStatus = "connecting"
    /\ webrtc[c].cb.connectionStatus = "error"

C38_Live ==
    \A c \in Pair :
        Retrying(c) ~> (page[c].connectionStatus \in {"connected", "error"})

C38_SameUser ==
    \A c \in Clients :
        page[c].connectionStatus = "connected" => webrtc[c].localUserId = page[c].userId

\* C38: a join started from the error screen eventually shows connected or
\* error, and whenever the page shows connected the local user id of the
\* connection layer is the user id of the page.
C38_RetrySettles == C38_Live /\ []C38_SameUser

\* C39: the session of a tab is ended by the page's WebRTC.disconnect() only
\* in a step in which the user leaves, and in every reachable state a page
\* that shows connected has a connection layer that is connected.
C39_OnlyLeaveDisconnects ==
    /\ [][SessionEnds(last'.c) /\ last'.op \notin {"disconnect", "error"}
             => last'.op = "handleLeave"]_vars
    /\ [](\A c \in Clients :
             page[c].connectionStatus = "connected" => webrtc[c]._isConnected)
====
